---------------------------- MODULE Spec2Model ----------------------------
(***************************************************************************)
(* A model of the har-to-curl backend: the HAR service (upload, analyze,   *)
(* execute, getEntries and the periodic cleanup of its session store), the *)
(* HAR parser utilities, the curl generator and the URL validator.         *)
(*                                                                         *)
(* Text is modelled as a sequence of one-character strings, so that the    *)
(* code's string operations (toLowerCase, startsWith, includes, replace,   *)
(* join, regular expressions) are computed and not assumed.                *)
(***************************************************************************)
EXTENDS Integers, Sequences, FiniteSets, TLC

VARIABLES
    store,        \* HarService.store: id -> StoredHar
    now,          \* the wall clock (Date.now()), in milliseconds
    lastSweep,    \* the time the cleanup timer last fired
    nextId,       \* the number of ids randomUUID has issued so far
    analyzeReq,   \* the analyze call suspended at `await identifyRequest`
    last,         \* what the last completed upload / analyze / getEntries
                  \* returned or threw, with what it was called on
    exec,         \* the execute calls in flight: slot -> position and data
    vpc,          \* validateUrl: "start", "lookup" (awaiting dns) or "done"
    vurl,         \* the URL handed to validateUrl / assertHttpOrHttpsUrl
    vres,         \* the outcome of validateUrl / assertHttpOrHttpsUrl
    curlIn,       \* the entry handed to generateCurl
    curlAlt,      \* the same entry with other sensitive header values
    curlOut,      \* generateCurl(curlIn)
    curlAltOut,   \* generateCurl(curlAlt)
    callIn,       \* the arguments of a call of a parser utility
    callOut       \* what that call returned

vars == <<store, now, lastSweep, nextId, analyzeReq, last, exec, vpc, vurl,
          vres, curlIn, curlAlt, curlOut, curlAltOut, callIn, callOut>>

serviceVars == <<store, now, lastSweep, nextId, analyzeReq, last>>
urlVars == <<vpc, vurl, vres>>
curlVars == <<curlIn, curlAlt, curlOut, curlAltOut>>
callVars == <<callIn, callOut>>

-----------------------------------------------------------------------------
(* Text helpers: the JavaScript string operations the code uses.           *)

UpperChars == <<"A","B","C","D","E","F","G","H","I","J","K","L","M",
                "N","O","P","Q","R","S","T","U","V","W","X","Y","Z">>
LowerChars == <<"a","b","c","d","e","f","g","h","i","j","k","l","m",
                "n","o","p","q","r","s","t","u","v","w","x","y","z">>
DigitChars == <<"0","1","2","3","4","5","6","7","8","9">>
HexChars == <<"0","1","2","3","4","5","6","7","8","9","a","b","c","d","e","f">>

\* The lower-case letter of each upper-case letter, and the converse.
LowerOf ==
    [c \in { UpperChars[i] : i \in 1..26 } |->
        LowerChars[CHOOSE i \in 1..26 : UpperChars[i] = c]]
UpperOf ==
    [c \in { LowerChars[i] : i \in 1..26 } |->
        UpperChars[CHOOSE i \in 1..26 : LowerChars[i] = c]]

\* String.prototype.toLowerCase / toUpperCase
RECURSIVE toLowerCase(_)
toLowerCase(s) ==
    IF Len(s) = 0 THEN <<>>
    ELSE << IF s[1] \in DOMAIN LowerOf THEN LowerOf[s[1]] ELSE s[1] >>
         \o toLowerCase(Tail(s))
RECURSIVE toUpperCase(_)
toUpperCase(s) ==
    IF Len(s) = 0 THEN <<>>
    ELSE << IF s[1] \in DOMAIN UpperOf THEN UpperOf[s[1]] ELSE s[1] >>
         \o toUpperCase(Tail(s))

\* String.prototype.startsWith, and a regular expression /^prefix/
startsWith(s, p) == Len(s) >= Len(p) /\ SubSeq(s, 1, Len(p)) = p

\* String.prototype.endsWith
endsWith(s, p) ==
    Len(s) >= Len(p) /\ SubSeq(s, Len(s) - Len(p) + 1, Len(s)) = p

\* String.prototype.includes
includes(s, p) ==
    \E i \in 1..(Len(s) - Len(p) + 1) : SubSeq(s, i, i + Len(p) - 1) = p

\* The value of a decimal digit character, -1 for any other character.
DigitValue(c) ==
    IF \E i \in 1..10 : DigitChars[i] = c
    THEN (CHOOSE i \in 1..10 : DigitChars[i] = c) - 1
    ELSE -1

\* A regular-expression character class [lo-hi] over the decimal digits.
InClass(c, lo, hi) == DigitValue(c) >= lo /\ DigitValue(c) <= hi

\* Number.prototype.toString() of a natural number.
RECURSIVE Dec(_)
Dec(n) == IF n < 10 THEN <<DigitChars[n + 1]>>
          ELSE Dec(n \div 10) \o <<DigitChars[(n % 10) + 1]>>

\* A 16-bit group of an IPv6 address in lower-case hex, no leading zeros.
RECURSIVE Hex(_)
Hex(n) == IF n < 16 THEN <<HexChars[n + 1]>>
          ELSE Hex(n \div 16) \o <<HexChars[(n % 16) + 1]>>

\* Array.prototype.join
RECURSIVE join(_, _)
join(parts, sep) ==
    IF Len(parts) = 0 THEN <<>>
    ELSE IF Len(parts) = 1 THEN parts[1]
    ELSE parts[1] \o sep \o join(Tail(parts), sep)

-----------------------------------------------------------------------------
(* URL validator (url-validator.ts).                                       *)
(*                                                                         *)
(* A URL handed to the validator is either unparsable (new URL throws) or  *)
(* parses to a protocol and a host.  The host is kept as the address or    *)
(* the name it denotes; URL.hostname and dns lookup render it as text, and *)
(* the code's regular expressions run on that text.                        *)
(*   [kind |-> "v4", o |-> <<a, b, c, d>>]   the IPv4 address a.b.c.d      *)
(*   [kind |-> "v6", h1 |-> x, h8 |-> y]     the IPv6 address x:0:0:0:0:0:0:y *)
(*   [kind |-> "name", text |-> chars]       a domain name as written      *)

V4Hosts ==
    { [kind |-> "v4", o |-> <<a, b, 0, 1>>] :
        a \in {0, 1, 9, 10, 11, 93, 99, 100, 101, 126, 127, 128, 169, 171,
               172, 173, 192, 193},
        b \in {0, 15, 16, 17, 20, 31, 32, 63, 64, 65, 99, 100, 119, 127, 128,
               167, 168, 169, 253, 254, 255} }

\* fc00 = 64512, fdff = 65023, fe80 = 65152, febf = 65215
V6Hosts ==
    { [kind |-> "v6", h1 |-> x, h8 |-> y] :
        x \in {0, 1, 8193, 64511, 64512, 64513, 64768, 65023, 65024, 65151,
               65152, 65153, 65215, 65216},
        y \in {0, 1, 2} }

NameTexts ==
    { <<"l","o","c","a","l","h","o","s","t">>,
      <<"L","O","C","A","L","H","O","S","T">>,
      <<"L","o","c","a","l","H","o","s","t">>,
      <<"m","e","t","a","d","a","t","a",".","g","o","o","g","l","e",".",
        "i","n","t","e","r","n","a","l">>,
      <<"M","e","t","a","d","a","t","a",".","I","n","t","e","r","n","a","l">>,
      <<"l","o","c","a","l","h","o","s","t",".","e","v","i","l",".","c","o","m">>,
      <<"a","p","i",".","e","x","a","m","p","l","e",".","c","o","m">>,
      <<"A","p","i",".","E","x","a","m","p","l","e",".","c","o","m">>,
      <<"1","0",".","e","x","a","m","p","l","e",".","c","o","m">>,
      <<"1","2","7",".","e","v","i","l",".","c","o","m">>,
      <<"f","c","0","0",".","e","x","a","m","p","l","e",".","c","o","m">>,
      <<"e","v","i","l","-","r","e","b","i","n","d",".","e","x","a","m","p",
        "l","e",".","c","o","m">> }

Hosts ==
    V4Hosts \cup V6Hosts \cup { [kind |-> "name", text |-> t] : t \in NameTexts }

HTTP == <<"h","t","t","p",":">>
HTTPS == <<"h","t","t","p","s",":">>
Protocols ==
    { HTTP, HTTPS, <<"f","t","p",":">>, <<"f","i","l","e",":">>,
      <<"j","a","v","a","s","c","r","i","p","t",":">>, <<"w","s",":">> }

NoHost == [kind |-> "name", text |-> <<>>]
Unparsable == [parsable |-> FALSE, protocol |-> <<>>, host |-> NoHost]

Urls ==
    {Unparsable}
    \cup { [parsable |-> TRUE, protocol |-> p, host |-> h] :
             p \in {HTTP, HTTPS}, h \in Hosts }
    \cup { [parsable |-> TRUE, protocol |-> p, host |-> h] :
             p \in Protocols \ {HTTP, HTTPS},
             h \in { [kind |-> "name", text |-> <<"l","o","c","a","l","h","o","s","t">>],
                     [kind |-> "name", text |-> <<"a","p","i",".","e","x","a","m","p","l","e",".","c","o","m">>],
                     [kind |-> "v4", o |-> <<127, 0, 0, 1>>],
                     NoHost } }

\* The text of an IP address as dns lookup returns it and as the URL parser
\* serialises it: dotted decimal, or RFC 5952 compressed lower-case hex.
AddressText(h) ==
    IF h.kind = "v4"
    THEN Dec(h.o[1]) \o <<".">> \o Dec(h.o[2]) \o <<".">> \o Dec(h.o[3])
         \o <<".">> \o Dec(h.o[4])
    ELSE (IF h.h1 = 0 THEN <<>> ELSE Hex(h.h1)) \o <<":", ":">>
         \o (IF h.h8 = 0 THEN <<>> ELSE Hex(h.h8))

\* URL.prototype.hostname: an IPv6 address is serialised in square brackets,
\* a domain name in lower case.
hostname(u) ==
    CASE u.host.kind = "v4" -> AddressText(u.host)
      [] u.host.kind = "v6" -> <<"[">> \o AddressText(u.host) \o <<"]">>
      [] OTHER -> toLowerCase(u.host.text)

\* BLOCKED_IP_PATTERNS, one operator per regular expression.
Loopback(ip) == startsWith(ip, <<"1","2","7",".">>)
PrivateA(ip) == startsWith(ip, <<"1","0",".">>)
PrivateB(ip) ==
    /\ startsWith(ip, <<"1","7","2",".">>)
    /\ Len(ip) >= 7
    /\ \/ ip[5] = "1" /\ InClass(ip[6], 6, 9)
       \/ ip[5] = "2" /\ InClass(ip[6], 0, 9)
       \/ ip[5] = "3" /\ InClass(ip[6], 0, 1)
    /\ ip[7] = "."
PrivateC(ip) == startsWith(ip, <<"1","9","2",".","1","6","8",".">>)
LinkLocal(ip) == startsWith(ip, <<"1","6","9",".","2","5","4",".">>)
ThisNetwork(ip) == startsWith(ip, <<"0",".">>)
CarrierNat(ip) ==
    /\ startsWith(ip, <<"1","0","0",".">>)
    /\ \/ /\ Len(ip) >= 7
          /\ \/ ip[5] = "6" /\ InClass(ip[6], 4, 9)
             \/ InClass(ip[5], 7, 9) /\ InClass(ip[6], 0, 9)
          /\ ip[7] = "."
       \/ /\ Len(ip) >= 8
          /\ \/ ip[5] = "1" /\ InClass(ip[6], 0, 1) /\ InClass(ip[7], 0, 9)
             \/ ip[5] = "1" /\ ip[6] = "2" /\ InClass(ip[7], 0, 7)
          /\ ip[8] = "."
Loopback6(ip) == ip = <<":", ":", "1">>
UniqueLocal6(ip) == startsWith(ip, <<"f","c","0","0",":">>)
LinkLocal6(ip) == startsWith(ip, <<"f","e","8","0",":">>)

\* isBlockedIp: BLOCKED_IP_PATTERNS.some(pattern => pattern.test(ip))
isBlockedIp(ip) ==
    \/ Loopback(ip) \/ PrivateA(ip) \/ PrivateB(ip) \/ PrivateC(ip)
    \/ LinkLocal(ip) \/ ThisNetwork(ip) \/ CarrierNat(ip)
    \/ Loopback6(ip) \/ UniqueLocal6(ip) \/ LinkLocal6(ip)

BLOCKED_HOSTNAMES ==
    { <<"l","o","c","a","l","h","o","s","t">>,
      <<"m","e","t","a","d","a","t","a",".","g","o","o","g","l","e",".",
        "i","n","t","e","r","n","a","l">>,
      <<"m","e","t","a","d","a","t","a",".","i","n","t","e","r","n","a","l">> }

\* Steps 1 and 2 of validateUrl, which are the whole of assertHttpOrHttpsUrl.
ProtocolCheck(u) ==
    IF ~u.parsable THEN "InvalidUrl"
    ELSE IF u.protocol # HTTP /\ u.protocol # HTTPS THEN "SchemeNotAllowed"
    ELSE "pass"

\* Steps 3 and 4 of validateUrl.
HostCheck(u) ==
    IF toLowerCase(hostname(u)) \in BLOCKED_HOSTNAMES THEN "BlockedHost"
    ELSE IF isBlockedIp(toLowerCase(hostname(u))) THEN "BlockedIp"
    ELSE "pass"

\* SyncChecks with the hostname checks ahead of the scheme check: the fault
\* the order stated in C7 guards against.
SyncChecksHostFirst(u) ==
    IF ~u.parsable THEN "InvalidUrl"
    ELSE IF HostCheck(u) # "pass" THEN HostCheck(u)
    ELSE ProtocolCheck(u)

\* validateUrl up to its await: the first failing check, or "pass".
SyncChecks(u) ==
    IF ProtocolCheck(u) # "pass" THEN ProtocolCheck(u) ELSE HostCheck(u)

\* Step 5 of validateUrl, given what dns lookup answered: a failed lookup is
\* swallowed by the catch, a blocked address is rethrown.
NoReply == [ok |-> FALSE, address |-> [kind |-> "v4", o |-> <<0, 0, 0, 0>>]]
DnsReplies ==
    {NoReply}
    \cup { [ok |-> TRUE, address |-> [kind |-> "v4", o |-> <<a, b, 0, 1>>]] :
             a \in {10, 93, 100, 127, 172, 192}, b \in {0, 16, 64, 168} }
    \cup { [ok |-> TRUE, address |-> a] : a \in V6Hosts }

ResolvedCheck(reply) ==
    IF reply.ok /\ isBlockedIp(AddressText(reply.address))
    THEN "ResolvedBlockedIp"
    ELSE "ok"

NoResult == [fn |-> "none", outcome |-> "none", looked |-> FALSE,
             reply |-> NoReply]

\* validateUrl(vurl), from its call to its await or to the error it throws.
ValidateUrlStart ==
    /\ vpc = "start"
    /\ IF SyncChecks(vurl) = "pass"
       THEN /\ vpc' = "lookup"
            /\ UNCHANGED vres
       ELSE /\ vpc' = "done"
            /\ vres' = [fn |-> "validateUrl", outcome |-> SyncChecks(vurl),
                        looked |-> FALSE, reply |-> NoReply]
    /\ UNCHANGED <<vurl, serviceVars, exec, curlVars, callVars>>

\* validateUrl(vurl), resumed with the answer of dns lookup.
ValidateUrlLookup(reply) ==
    /\ vpc = "lookup"
    /\ vpc' = "done"
    /\ vres' = [fn |-> "validateUrl", outcome |-> ResolvedCheck(reply),
                looked |-> TRUE, reply |-> reply]
    /\ UNCHANGED <<vurl, serviceVars, exec, curlVars, callVars>>

\* assertHttpOrHttpsUrl(vurl)
AssertHttpOrHttpsUrl ==
    /\ vpc = "start"
    /\ vpc' = "done"
    /\ vres' = [fn |-> "assertHttpOrHttpsUrl",
                outcome |-> IF ProtocolCheck(vurl) = "pass" THEN "ok"
                            ELSE ProtocolCheck(vurl),
                looked |-> FALSE, reply |-> NoReply]
    /\ UNCHANGED <<vurl, serviceVars, exec, curlVars, callVars>>

NextUrl ==
    \/ ValidateUrlStart
    \/ \E r \in DnsReplies : ValidateUrlLookup(r)
    \/ AssertHttpOrHttpsUrl

-----------------------------------------------------------------------------
(* HAR entries (har-parser.ts, interface HarEntry).                        *)
(*                                                                         *)
(* request.url is kept as what `new URL(url)` makes of it (origin, path,   *)
(* query parameters) or as raw text when it does not parse; href(url) is   *)
(* the string the entry carries.  An optional string is [def, v].          *)

Undefined == [def |-> FALSE, v |-> <<>>]
Some(text) == [def |-> TRUE, v |-> text]

NoPostData == [present |-> FALSE, mimeType |-> <<>>, text |-> Undefined,
               params |-> <<>>]

RECURSIVE QueryText(_)
QueryText(q) ==
    IF Len(q) = 0 THEN <<>>
    ELSE q[1].name \o <<"=">> \o q[1].value
         \o (IF Len(q) > 1 THEN <<"&">> \o QueryText(Tail(q)) ELSE <<>>)

\* The URL string of an entry.
href(u) ==
    IF ~u.parsable THEN u.raw
    ELSE u.prefix \o u.pathname
         \o (IF Len(u.query) > 0 THEN <<"?">> \o QueryText(u.query) ELSE <<>>)

\* An http(s) URL: URL.origin is what precedes the path.
Url(origin, pathname, query) ==
    [parsable |-> TRUE, prefix |-> origin, origin |-> origin,
     pathname |-> pathname, query |-> query, raw |-> <<>>]
\* A data: or blob: URL: the scheme precedes the path and URL.origin is "null"
\* (a blob: URL has the origin of the URL it wraps; none is grouped here).
OpaqueUrl(scheme, pathname) ==
    [parsable |-> TRUE, prefix |-> scheme, origin |-> <<"n","u","l","l">>,
     pathname |-> pathname, query |-> <<>>, raw |-> <<>>]
\* A string `new URL` throws on.
RawUrl(text) ==
    [parsable |-> FALSE, prefix |-> <<>>, origin |-> <<>>, pathname |-> <<>>,
     query |-> <<>>, raw |-> text]

Entry(method, url, headers, postData, status, mimeType, size, text) ==
    [request |-> [method |-> method, url |-> url, headers |-> headers,
                  postData |-> postData],
     response |-> [status |-> status,
                   content |-> [size |-> size, mimeType |-> mimeType,
                                text |-> text]]]

-----------------------------------------------------------------------------
(* Curl generator (curl-generator.ts).                                     *)

SKIP_HEADERS ==
    { <<"h","o","s","t">>,
      <<"c","o","n","n","e","c","t","i","o","n">>,
      <<"c","o","n","t","e","n","t","-","l","e","n","g","t","h">>,
      <<"a","c","c","e","p","t","-","e","n","c","o","d","i","n","g">>,
      <<":","m","e","t","h","o","d">>,
      <<":","p","a","t","h">>,
      <<":","s","c","h","e","m","e">>,
      <<":","a","u","t","h","o","r","i","t","y">> }

SENSITIVE_HEADERS ==
    { <<"a","u","t","h","o","r","i","z","a","t","i","o","n">>,
      <<"c","o","o","k","i","e">>,
      <<"x","-","a","p","i","-","k","e","y">>,
      <<"x","-","a","u","t","h","-","t","o","k","e","n">>,
      <<"p","r","o","x","y","-","a","u","t","h","o","r","i","z","a","t","i","o","n">> }

REDACTED == <<"[","R","E","D","A","C","T","E","D","]">>
GET == <<"G","E","T">>
POST == <<"P","O","S","T">>
HEAD == <<"H","E","A","D">>

\* escapeShell without the g flag of the regular expression: only the first
\* single quote is replaced.
RECURSIVE escapeShellFirstOnly(_)
escapeShellFirstOnly(str) ==
    IF Len(str) = 0 THEN <<>>
    ELSE IF str[1] = "'" THEN <<"'", "\\", "'", "'">> \o Tail(str)
    ELSE <<str[1]>> \o escapeShellFirstOnly(Tail(str))

\* escapeShell: str.replace(/'/g, "'\\''").  Every single quote is
\* replaced; the text is taken by halves, so that a body of 10,000
\* characters is within reach.
RECURSIVE escapeShell(_)
escapeShell(str) ==
    IF Len(str) = 0 THEN <<>>
    ELSE IF Len(str) = 1
    THEN (IF str[1] = "'" THEN <<"'", "\\", "'", "'">> ELSE str)
    ELSE LET half == Len(str) \div 2 IN
         escapeShell(SubSeq(str, 1, half))
         \o escapeShell(SubSeq(str, half + 1, Len(str)))

\* A single-quoted shell argument after a flag: flag 'escaped'
Quoted(flag, str) == flag \o <<"'">> \o escapeShell(str) \o <<"'">>

\* !!request.postData?.text
HasText(postData) ==
    postData.present /\ postData.text.def /\ Len(postData.text.v) > 0

\* request.postData?.params && request.postData.params.length > 0
HasParams(postData) == postData.present /\ Len(postData.params) > 0

hasBody(request) == HasText(request.postData) \/ HasParams(request.postData)

\* MethodParts with the flag omitted for every POST, with or without a body.
MethodPartsPostNeverFlagged(request) ==
    LET method == toUpperCase(request.method) IN
    IF method # GET /\ method # POST
    THEN << <<"-","X"," ">> \o method >>
    ELSE <<>>

\* The -X flag, or nothing.
MethodParts(request) ==
    LET method == toUpperCase(request.method) IN
    IF method # GET /\ ~(method = POST /\ hasBody(request))
    THEN << <<"-","X"," ">> \o method >>
    ELSE <<>>

\* HeaderValue with the name compared as written, without toLowerCase: the
\* fault C4 guards against.
HeaderValueAsWritten(header) ==
    IF header.name \in SENSITIVE_HEADERS THEN REDACTED ELSE header.value

\* The value generateCurl prints for a header.
HeaderValue(header) ==
    IF toLowerCase(header.name) \in SENSITIVE_HEADERS THEN REDACTED
    ELSE header.value

HeaderPart(header) ==
    Quoted(<<"-","H"," ">>, header.name \o <<":"," ">> \o HeaderValue(header))

\* request.headers.filter(h => !SKIP_HEADERS.has(h.name.toLowerCase())), then
\* one -H part per header left.
RECURSIVE HeaderParts(_)
HeaderParts(headers) ==
    IF Len(headers) = 0 THEN <<>>
    ELSE (IF toLowerCase(headers[1].name) \in SKIP_HEADERS THEN <<>>
          ELSE <<HeaderPart(headers[1])>>)
         \o HeaderParts(Tail(headers))

DATA_RAW == <<"-","-","d","a","t","a","-","r","a","w"," ">>
DATA_URLENCODE ==
    <<"-","-","d","a","t","a","-","u","r","l","e","n","c","o","d","e"," ">>

\* BodyParts with the form parameters printed whenever there are any, also
\* after a raw body.
BodyPartsFormAlways(request) ==
    (IF HasText(request.postData)
     THEN << Quoted(DATA_RAW, request.postData.text.v) >>
     ELSE <<>>)
    \o (IF HasParams(request.postData)
        THEN [i \in 1..Len(request.postData.params) |->
                Quoted(DATA_URLENCODE,
                       request.postData.params[i].name \o <<"=">>
                       \o request.postData.params[i].value)]
        ELSE <<>>)

BodyParts(request) ==
    IF HasText(request.postData)
    THEN << Quoted(DATA_RAW, request.postData.text.v) >>
    ELSE IF HasParams(request.postData)
    THEN [i \in 1..Len(request.postData.params) |->
            Quoted(DATA_URLENCODE,
                   request.postData.params[i].name \o <<"=">>
                   \o request.postData.params[i].value)]
    ELSE <<>>

\* The parts generateCurl collects, in order.
curlParts(entry) ==
    << <<"c","u","r","l">> >>
    \o MethodParts(entry.request)
    \o << Quoted(<<>>, href(entry.request.url)) >>
    \o HeaderParts(entry.request.headers)
    \o BodyParts(entry.request)

\* parts.join(' \\\n  ')
generateCurl(entry) == join(curlParts(entry), <<" ", "\\", "\n", " ", " ">>)

\* The entries generateCurl is applied to.
MaxHeaders == 2

CurlHeaderNames ==
    { <<"C","o","o","k","i","e">>,
      <<"A","U","T","H","O","R","I","Z","A","T","I","O","N">>,
      <<"x","-","a","p","i","-","k","e","y">>,
      <<"X","-","A","u","t","h","-","T","o","k","e","n">>,
      <<"P","r","o","x","y","-","A","u","t","h","o","r","i","z","a","t","i","o","n">>,
      <<"A","c","c","e","p","t">>,
      <<"H","o","s","t">>,
      <<":","p","a","t","h">> }

CurlHeaderValues == { <<"a">>, <<"i","t","'","s">> }

HeaderLists(n) ==
    UNION { [1..k -> [name : CurlHeaderNames, value : CurlHeaderValues]] :
              k \in 0..n }

API_ORIGIN ==
    <<"h","t","t","p","s",":","/","/","a","p","i",".","c","o","m">>

CurlUrls ==
    { Url(API_ORIGIN, <<"/","o","'","b">>,
          << [name |-> <<"q">>, value |-> <<"1">>] >>) }

CurlPostData ==
    { NoPostData,
      [present |-> TRUE, mimeType |-> <<"t","e","x","t">>,
       text |-> Some(<<"{","'","k","'","}">>), params |-> <<>>] }

CurlMethods == { GET, POST }

CurlEntries ==
    { Entry(m, u, h, pd, 200, <<"j","s","o","n">>, 0, Undefined) :
        m \in CurlMethods, u \in CurlUrls, h \in HeaderLists(MaxHeaders),
        pd \in CurlPostData }

\* The header names the documentation calls sensitive, and the entries that
\* differ from an entry only in the values of headers with such a name.
SecretHeaderNames ==
    { <<"a","u","t","h","o","r","i","z","a","t","i","o","n">>,
      <<"c","o","o","k","i","e">>,
      <<"x","-","a","p","i","-","k","e","y">>,
      <<"x","-","a","u","t","h","-","t","o","k","e","n">>,
      <<"p","r","o","x","y","-","a","u","t","h","o","r","i","z","a","t","i","o","n">> }

IsSecretHeader(header) == toLowerCase(header.name) \in SecretHeaderNames

RECURSIVE SecretVariants(_)
SecretVariants(headers) ==
    IF Len(headers) = 0 THEN { <<>> }
    ELSE { << [name |-> headers[1].name, value |-> v] >> \o rest :
             v \in (IF IsSecretHeader(headers[1]) THEN CurlHeaderValues
                    ELSE { headers[1].value }),
             rest \in SecretVariants(Tail(headers)) }

NoEntry == Entry(<<>>, RawUrl(<<>>), <<>>, NoPostData, 0, <<>>, 0, Undefined)
NoCall == [fn |-> "none", entries |-> <<>>, deduplicate |-> FALSE]
NoReturn ==
    [done |-> TRUE,
     filter |-> [filtered |-> <<>>,
                 stats |-> [total |-> 0, removed |-> 0, kept |-> 0],
                 breakdown |-> <<>>],
     summary |-> [summary |-> <<>>, uniquePatterns |-> 0, originalEntries |-> 0],
     stripped |-> <<>>]
NoCurl == [done |-> FALSE, parts |-> <<>>, cmd |-> <<>>]

\* generateCurl applied to both entries.
GenerateCurl ==
    /\ ~curlOut.done
    /\ curlOut' = [done |-> TRUE, parts |-> curlParts(curlIn),
                   cmd |-> generateCurl(curlIn)]
    /\ curlAltOut' = [done |-> TRUE, parts |-> curlParts(curlAlt),
                      cmd |-> generateCurl(curlAlt)]
    /\ UNCHANGED <<curlIn, curlAlt, serviceVars, exec, urlVars, callVars>>

NextCurl == GenerateCurl

-----------------------------------------------------------------------------
(* HAR parser (har-parser.ts).                                             *)

STATIC_ASSET_TYPES ==
    { <<"t","e","x","t","/","h","t","m","l">>,
      <<"t","e","x","t","/","c","s","s">>,
      <<"t","e","x","t","/","j","a","v","a","s","c","r","i","p","t">>,
      <<"a","p","p","l","i","c","a","t","i","o","n","/","j","a","v","a","s","c","r","i","p","t">>,
      <<"a","p","p","l","i","c","a","t","i","o","n","/","x","-","j","a","v","a","s","c","r","i","p","t">>,
      <<"i","m","a","g","e","/">>,
      <<"f","o","n","t","/">>,
      <<"a","u","d","i","o","/">>,
      <<"v","i","d","e","o","/">>,
      <<"a","p","p","l","i","c","a","t","i","o","n","/","f","o","n","t">>,
      <<"a","p","p","l","i","c","a","t","i","o","n","/","x","-","f","o","n","t">>,
      <<"a","p","p","l","i","c","a","t","i","o","n","/","w","o","f","f">>,
      <<"a","p","p","l","i","c","a","t","i","o","n","/","o","c","t","e","t","-","s","t","r","e","a","m">> }

STATIC_ASSET_EXTENSIONS ==
    { <<".","j","s">>, <<".","c","s","s">>, <<".","p","n","g">>,
      <<".","j","p","g">>, <<".","j","p","e","g">>, <<".","g","i","f">>,
      <<".","s","v","g">>, <<".","i","c","o">>, <<".","w","o","f","f">>,
      <<".","w","o","f","f","2">>, <<".","t","t","f">>, <<".","e","o","t">>,
      <<".","m","a","p">>, <<".","w","e","b","p">>, <<".","a","v","i","f">> }

TRACKING_DOMAINS ==
    { <<"g","o","o","g","l","e","-","a","n","a","l","y","t","i","c","s",".","c","o","m">>,
      <<"g","o","o","g","l","e","t","a","g","m","a","n","a","g","e","r",".","c","o","m">>,
      <<"d","o","u","b","l","e","c","l","i","c","k",".","n","e","t">>,
      <<"f","a","c","e","b","o","o","k",".","c","o","m">>,
      <<"f","a","c","e","b","o","o","k",".","n","e","t">>,
      <<"f","b","c","d","n",".","n","e","t">>,
      <<"a","n","a","l","y","t","i","c","s">>,
      <<"t","r","a","c","k","i","n","g">>,
      <<"p","i","x","e","l">>,
      <<"b","e","a","c","o","n">>,
      <<"h","o","t","j","a","r",".","c","o","m">>,
      <<"s","e","g","m","e","n","t",".","c","o","m">>,
      <<"m","i","x","p","a","n","e","l",".","c","o","m">>,
      <<"s","e","n","t","r","y",".","i","o">>,
      <<"n","e","w","r","e","l","i","c",".","c","o","m">>,
      <<"d","a","t","a","d","o","g","h","q",".","c","o","m">> }

TEXT_HTML == <<"t","e","x","t","/","h","t","m","l">>
OPTIONS == <<"O","P","T","I","O","N","S">>

\* An uploaded buffer: not JSON at all, or JSON whose log.entries is missing
\* or falsy, or truthy but no array, or an array of entries.
Doc(entries) ==
    [json |-> TRUE, hasEntries |-> TRUE, isArray |-> TRUE, entries |-> entries]
NotJson ==
    [json |-> FALSE, hasEntries |-> FALSE, isArray |-> FALSE, entries |-> <<>>]
NoLogEntries ==
    [json |-> TRUE, hasEntries |-> FALSE, isArray |-> FALSE, entries |-> <<>>]
EntriesNotArray ==
    [json |-> TRUE, hasEntries |-> TRUE, isArray |-> FALSE, entries |-> <<>>]

\* parseHarFile: "ok", or the error it throws.
parseHarFile(rawContent) ==
    IF ~rawContent.json THEN "NotValidJson"
    ELSE IF ~rawContent.hasEntries THEN "MissingLogEntries"
    ELSE "ok"

isStaticAssetType(mimeType) ==
    LET lower == toLowerCase(mimeType) IN
    \E type \in STATIC_ASSET_TYPES : includes(lower, type)

\* `new URL(url).pathname`; false when the URL does not parse.
isStaticAssetUrl(url) ==
    /\ url.parsable
    /\ LET pathname == toLowerCase(url.pathname) IN
       \E ext \in STATIC_ASSET_EXTENSIONS : endsWith(pathname, ext)

isTrackingDomain(url) ==
    LET urlLower == toLowerCase(href(url)) IN
    \E domain \in TRACKING_DOMAINS : includes(urlLower, domain)

\* FilterReason with the redirect test moved to the front.
FilterReasonRedirectsFirst(entry) ==
    LET mimeType == entry.response.content.mimeType
        url == entry.request.url
    IN  IF entry.response.status >= 300 /\ entry.response.status < 400
        THEN "redirects"
        ELSE IF includes(mimeType, TEXT_HTML) THEN "html"
        ELSE IF isStaticAssetType(mimeType) THEN "staticAssetMime"
        ELSE IF isStaticAssetUrl(url) THEN "staticAssetUrl"
        ELSE IF isTrackingDomain(url) THEN "tracking"
        ELSE IF \/ startsWith(href(url), <<"d","a","t","a",":">>)
                \/ startsWith(href(url), <<"b","l","o","b",":">>)
             THEN "dataBlob"
        ELSE IF entry.request.method = OPTIONS THEN "options"
        ELSE "kept"

\* The category filterEntries counts an entry under, "kept" when it keeps it.
FilterReason(entry) ==
    LET mimeType == entry.response.content.mimeType
        url == entry.request.url
    IN  IF includes(mimeType, TEXT_HTML) THEN "html"
        ELSE IF isStaticAssetType(mimeType) THEN "staticAssetMime"
        ELSE IF isStaticAssetUrl(url) THEN "staticAssetUrl"
        ELSE IF isTrackingDomain(url) THEN "tracking"
        ELSE IF \/ startsWith(href(url), <<"d","a","t","a",":">>)
                \/ startsWith(href(url), <<"b","l","o","b",":">>)
             THEN "dataBlob"
        ELSE IF entry.response.status >= 300 /\ entry.response.status < 400
             THEN "redirects"
        ELSE IF entry.request.method = OPTIONS THEN "options"
        ELSE "kept"

NoBreakdown ==
    [html |-> 0, staticAssetMime |-> 0, staticAssetUrl |-> 0, tracking |-> 0,
     dataBlob |-> 0, redirects |-> 0, options |-> 0]

\* FilterLoop with the counter of the last category forgotten: a preflight
\* request is removed and counted nowhere.
RECURSIVE FilterLoopOptionsUncounted(_, _, _)
FilterLoopOptionsUncounted(entries, filtered, breakdown) ==
    IF Len(entries) = 0
    THEN [filtered |-> filtered, breakdown |-> breakdown]
    ELSE LET reason == FilterReason(entries[1]) IN
         IF reason = "kept"
         THEN FilterLoopOptionsUncounted(Tail(entries),
                                         Append(filtered, entries[1]), breakdown)
         ELSE IF reason = "options"
         THEN FilterLoopOptionsUncounted(Tail(entries), filtered, breakdown)
         ELSE FilterLoopOptionsUncounted(Tail(entries), filtered,
                                         [breakdown EXCEPT ![reason] = @ + 1])

\* The callback of entries.filter: the entry is kept, or its category is
\* counted, in the order of the capture.
RECURSIVE FilterLoop(_, _, _)
FilterLoop(entries, filtered, breakdown) ==
    IF Len(entries) = 0
    THEN [filtered |-> filtered, breakdown |-> breakdown]
    ELSE LET reason == FilterReason(entries[1]) IN
         IF reason = "kept"
         THEN FilterLoop(Tail(entries), Append(filtered, entries[1]), breakdown)
         ELSE FilterLoop(Tail(entries), filtered,
                         [breakdown EXCEPT ![reason] = @ + 1])

filterEntries(entries) ==
    LET loop == FilterLoop(entries, <<>>, NoBreakdown) IN
    [filtered |-> loop.filtered,
     stats |-> [total |-> Len(entries),
                removed |-> Len(entries) - Len(loop.filtered),
                kept |-> Len(loop.filtered)],
     breakdown |-> loop.breakdown]

\* substring0 that keeps one character more than asked for.
substring0OneMore(str, n) ==
    SubSeq(str, 1, IF Len(str) < n + 1 THEN Len(str) ELSE n + 1)

\* String.prototype.substring(0, n)
substring0(str, n) == SubSeq(str, 1, IF Len(str) < n THEN Len(str) ELSE n)

BODY_CAP == 10000

\* StripPostData that keeps the text and loses the form parameters.
StripPostDataTextOnly(postData) ==
    IF ~postData.present THEN postData
    ELSE [postData EXCEPT
            !.text = IF postData.text.def
                     THEN Some(substring0(postData.text.v, BODY_CAP))
                     ELSE Some(<<>>),
            !.params = <<>>]

\* postData of a stripped entry: text?.substring(0, 10000) || ''
StripPostData(postData) ==
    IF ~postData.present THEN postData
    ELSE [postData EXCEPT
            !.text = IF postData.text.def
                     THEN Some(substring0(postData.text.v, BODY_CAP))
                     ELSE Some(<<>>)]

stripBodies(entries) ==
    [i \in 1..Len(entries) |->
        [request |-> [entries[i].request EXCEPT
                        !.postData = StripPostData(entries[i].request.postData)],
         response |-> [entries[i].response EXCEPT !.content.text = Undefined]]]

UNKNOWN == <<"u","n","k","n","o","w","n">>

\* entries.map((entry, index) => ({ index, ... })): index is the 0-based
\* position in the array handed in.
CompactEntry(entry, index) ==
    [index |-> index,
     method |-> entry.request.method,
     url |-> entry.request.url,
     status |-> entry.response.status,
     responseType |-> IF Len(entry.response.content.mimeType) = 0 THEN UNKNOWN
                      ELSE entry.response.content.mimeType,
     responseSize |-> entry.response.content.size]

\* toCompactEntries that numbers the entries from 1.
toCompactEntriesFromOne(entries) ==
    [i \in 1..Len(entries) |-> CompactEntry(entries[i], i)]

toCompactEntries(entries) ==
    [i \in 1..Len(entries) |-> CompactEntry(entries[i], i - 1)]

\* The characters of query-parameter names in UTF-16 code-unit order, the
\* order Array.prototype.sort compares strings in.
CharOrder ==
    <<"-", "0","1","2","3","4","5","6","7","8","9",
      "A","B","C","D","E","F","G","H","I","J","K","L","M",
      "N","O","P","Q","R","S","T","U","V","W","X","Y","Z", "_",
      "a","b","c","d","e","f","g","h","i","j","k","l","m",
      "n","o","p","q","r","s","t","u","v","w","x","y","z">>

CharCode(c) == CHOOSE i \in 1..Len(CharOrder) : CharOrder[i] = c

RECURSIVE TextLessEq(_, _)
TextLessEq(a, b) ==
    IF Len(a) = 0 THEN TRUE
    ELSE IF Len(b) = 0 THEN FALSE
    ELSE IF a[1] = b[1] THEN TextLessEq(Tail(a), Tail(b))
    ELSE CharCode(a[1]) < CharCode(b[1])

RECURSIVE Insert(_, _)
Insert(x, sorted) ==
    IF Len(sorted) = 0 THEN <<x>>
    ELSE IF TextLessEq(x, sorted[1]) THEN <<x>> \o sorted
    ELSE <<sorted[1]>> \o Insert(x, Tail(sorted))

\* Array.prototype.sort() of strings
RECURSIVE sort(_)
sort(names) ==
    IF Len(names) = 0 THEN <<>> ELSE Insert(names[1], sort(Tail(names)))

normalizeUrl(url) ==
    IF url.parsable
    THEN [base |-> url.origin \o url.pathname,
          paramNames |-> sort([i \in 1..Len(url.query) |-> url.query[i].name])]
    ELSE [base |-> href(url), paramNames |-> <<>>]

getDeduplicationKey(entry) ==
    entry.method \o <<" ">> \o normalizeUrl(entry.url).base \o <<" ", "?">>
    \o join(normalizeUrl(entry.url).paramNames, <<"&">>)

\* (x).toFixed(1) of bytes / unit, unit a power of two: the tenths, rounded
\* half up.
toFixed1(bytes, unit) ==
    LET tenths == (bytes * 20 + unit) \div (2 * unit) IN
    Dec(tenths \div 10) \o <<".">> \o Dec(tenths % 10)

formatBytes(bytes) ==
    IF bytes = 0 THEN <<"0"," ","B">>
    ELSE IF bytes < 1024 THEN Dec(bytes) \o <<" ","B">>
    ELSE IF bytes < 1048576 THEN toFixed1(bytes, 1024) \o <<" ","K","B">>
    ELSE toFixed1(bytes, 1048576) \o <<" ","M","B">>

\* The character U+2192 of the summary lines.
ARROW == "U+2192"

\* `[index] METHOD url -> STATUS (type, size)` and a suffix
SummaryLine(e, urlText, suffix) ==
    <<"[">> \o Dec(e.index) \o <<"]", " ">> \o e.method \o <<" ">> \o urlText
    \o <<" ", ARROW, " ">> \o Dec(e.status) \o <<" ", "(">> \o e.responseType
    \o <<",", " ">> \o formatBytes(e.responseSize) \o <<")">> \o suffix

\* GroupKeys that never remembers a key: an endpoint gets one line per call.
RECURSIVE GroupKeysRepeated(_, _)
GroupKeysRepeated(entries, seen) ==
    IF Len(entries) = 0 THEN <<>>
    ELSE <<getDeduplicationKey(entries[1])>>
         \o GroupKeysRepeated(Tail(entries), seen)

\* The keys of the Map `groups`, in insertion order.
RECURSIVE GroupKeys(_, _)
GroupKeys(entries, seen) ==
    IF Len(entries) = 0 THEN <<>>
    ELSE LET key == getDeduplicationKey(entries[1]) IN
         IF key \in seen THEN GroupKeys(Tail(entries), seen)
         ELSE <<key>> \o GroupKeys(Tail(entries), seen \cup {key})

\* groups.get(key): the entries with that key, in input order.
RECURSIVE GroupOf(_, _)
GroupOf(entries, key) ==
    IF Len(entries) = 0 THEN <<>>
    ELSE (IF getDeduplicationKey(entries[1]) = key THEN <<entries[1]>>
          ELSE <<>>)
         \o GroupOf(Tail(entries), key)

\* CompactUrl with the query string left as it was.
CompactUrlWithValues(url) ==
    LET n == normalizeUrl(url) IN
    IF Len(n.paramNames) > 0
    THEN n.base \o <<"?">> \o QueryText(url.query)
    ELSE n.base

\* base + `?name=...&name=...`
CompactUrl(url) ==
    LET n == normalizeUrl(url) IN
    IF Len(n.paramNames) > 0
    THEN n.base \o <<"?">>
         \o join([i \in 1..Len(n.paramNames) |->
                    n.paramNames[i] \o <<"=", ".", ".", ".">>], <<"&">>)
    ELSE n.base

CountSuffix(group) ==
    IF Len(group) > 1
    THEN <<" ", "[", "x">> \o Dec(Len(group)) \o <<"]">>
    ELSE <<>>

\* SummaryLines that lets the last member of a group stand for it.
SummaryLinesLastMember(entries, deduplicate) ==
    IF ~deduplicate
    THEN [i \in 1..Len(entries) |->
            SummaryLine(entries[i], href(entries[i].url), <<>>)]
    ELSE LET keys == GroupKeys(entries, {}) IN
         [k \in 1..Len(keys) |->
            LET group == GroupOf(entries, keys[k]) IN
            SummaryLine(group[Len(group)], CompactUrl(group[Len(group)].url),
                        CountSuffix(group))]

\* The lines createLlmSummary joins.
SummaryLines(entries, deduplicate) ==
    IF ~deduplicate
    THEN [i \in 1..Len(entries) |->
            SummaryLine(entries[i], href(entries[i].url), <<>>)]
    ELSE LET keys == GroupKeys(entries, {}) IN
         [k \in 1..Len(keys) |->
            LET group == GroupOf(entries, keys[k]) IN
            SummaryLine(group[1], CompactUrl(group[1].url), CountSuffix(group))]

createLlmSummary(entries, deduplicate) ==
    [summary |-> join(SummaryLines(entries, deduplicate), <<"\n">>),
     uniquePatterns |-> IF deduplicate THEN Len(GroupKeys(entries, {}))
                        ELSE Len(entries),
     originalEntries |-> Len(entries)]

-----------------------------------------------------------------------------
(* LLM service (llm.service.ts): what identifyRequest makes of the model's *)
(* answer.  A JSON number is kept as twice its value, so that halves (the  *)
(* non-integer numbers 0.5, 1.5, ...) are numbers of the model.            *)

MatcherReply(kind, twice) == [kind |-> kind, twice |-> twice]

\* identifyRequest: the index it returns, or the error it throws.
identifyRequest(reply) ==
    CASE reply.kind = "apiError" -> [ok |-> FALSE, error |-> "LlmApiError", twice |-> 0]
      [] reply.kind = "empty" -> [ok |-> FALSE, error |-> "LlmEmptyResponse", twice |-> 0]
      [] reply.kind = "notJson" -> [ok |-> FALSE, error |-> "LlmParseError", twice |-> 0]
      [] reply.kind = "noIndex" -> [ok |-> FALSE, error |-> "LlmParseError", twice |-> 0]
      [] OTHER -> [ok |-> TRUE, error |-> "none", twice |-> reply.twice]

-----------------------------------------------------------------------------
(* HAR service (har.service.ts).                                           *)

TTL_MS == 30 * 60 * 1000
SWEEP_INTERVAL_MS == 5 * 60 * 1000

\* Bounds: entries per capture, uploads accepted, clock ticks.
MaxEntries == 2
MaxUploads == 1
MaxTicks == 8

APP_JSON == <<"a","p","p","l","i","c","a","t","i","o","n","/","j","s","o","n">>

E_USERS ==
    Entry(GET,
          Url(API_ORIGIN, <<"/","u","s","e","r","s">>,
              << [name |-> <<"p","a","g","e">>, value |-> <<"1">>] >>),
          << [name |-> <<"C","o","o","k","i","e">>, value |-> <<"s","i","d">>] >>,
          NoPostData, 200, APP_JSON, 1024, Some(<<"[","]">>))
E_HTML ==
    Entry(GET, Url(API_ORIGIN, <<"/">>, <<>>), <<>>, NoPostData, 200,
          TEXT_HTML, 2048, Some(<<"<","p",">">>))
E_LOGIN ==
    Entry(POST, Url(API_ORIGIN, <<"/","l","o","g","i","n">>, <<>>),
          << [name |-> <<"H","o","s","t">>, value |-> <<"a","p","i",".","c","o","m">>] >>,
          [present |-> TRUE, mimeType |-> APP_JSON,
           text |-> Some(<<"{","}">>), params |-> <<>>],
          200, APP_JSON, 512, Some(<<"o","k">>))

UploadInputs ==
    {NotJson, NoLogEntries, EntriesNotArray}
    \cup { Doc(es) : es \in UNION { [1..k -> {E_USERS, E_HTML, E_LOGIN}] :
                                      k \in 0..MaxEntries } }

MatcherReplies ==
    { MatcherReply(k, 0) : k \in {"apiError", "empty", "notJson", "noIndex"} }
    \cup { MatcherReply("number", t) : t \in -2..(2 * MaxEntries + 1) }

NoSession == [entries |-> <<>>, compactEntries |-> <<>>, createdAt |-> 0]
NoCompact == CompactEntry(NoEntry, 0)
NoStats == [total |-> 0, removed |-> 0, kept |-> 0]
NoDetails == [url |-> <<>>, method |-> <<>>, headers |-> <<>>, body |-> Undefined]

NoLookup == [done |-> FALSE, found |-> FALSE, age |-> 0]
NoUpload == [input |-> <<>>, entries |-> <<>>, allEntries |-> <<>>,
             stats |-> NoStats]
NoAnalysis == [reply |-> MatcherReply("none", 0), entries |-> <<>>,
               compactEntries |-> <<>>,
               curl |-> <<>>, matchedEntry |-> NoCompact,
               requestDetails |-> NoDetails, entriesAnalyzed |-> 0,
               totalEntries |-> 0]
NoRequest == [active |-> FALSE, harId |-> 0, deduplicate |-> FALSE,
              stored |-> NoSession, summary |-> <<>>, uniquePatterns |-> 0,
              originalEntries |-> 0]

Result(op, status, error, id, lookup, upload, analysis) ==
    [op |-> op, status |-> status, error |-> error, id |-> id,
     lookup |-> lookup, upload |-> upload, analysis |-> analysis]

NoResultYet == Result("none", "none", "none", 0, NoLookup, NoUpload, NoAnalysis)

\* this.store.get(harId): whether a session is returned, and the age that
\* session has at that moment.
Lookup(harId) ==
    [done |-> TRUE, found |-> harId \in DOMAIN store,
     age |-> IF harId \in DOMAIN store THEN now - store[harId].createdAt
             ELSE 0]

\* The session upload stores for the filtered entries.
UploadedSession(filtered) ==
    [entries |-> stripBodies(filtered),
     compactEntries |-> toCompactEntries(filtered),
     createdAt |-> now]

\* upload(fileContent).  randomUUID is modelled as issuing the next id of a
\* sequence: an id never issued before.
Upload(fileContent) ==
    /\ IF parseHarFile(fileContent) # "ok"
       THEN /\ last' = Result("upload", "error", parseHarFile(fileContent), 0,
                              NoLookup, NoUpload, NoAnalysis)
            /\ UNCHANGED <<store, nextId>>
       ELSE IF ~fileContent.isArray
       THEN \* harFile.log.entries.map is not a function
            /\ last' = Result("upload", "error", "TypeError", 0,
                              NoLookup, NoUpload, NoAnalysis)
            /\ UNCHANGED <<store, nextId>>
       ELSE /\ nextId < MaxUploads
            /\ nextId' = nextId + 1
            /\ LET allEntries == toCompactEntries(fileContent.entries)
                   result == filterEntries(fileContent.entries)
                   session == UploadedSession(result.filtered)
               IN  /\ store' = store @@ ((nextId + 1) :> session)
                   /\ last' = Result("upload", "ok", "none", nextId + 1,
                                     NoLookup,
                                     [input |-> fileContent.entries,
                                      entries |-> session.compactEntries,
                                      allEntries |-> allEntries,
                                      stats |-> result.stats],
                                     NoAnalysis)
    /\ UNCHANGED <<now, lastSweep, analyzeReq, exec, urlVars, curlVars, callVars>>

\* analyze(harId, ...), up to `await this.llmService.identifyRequest(...)`.
AnalyzeStart(harId, deduplicate) ==
    /\ ~analyzeReq.active
    /\ IF harId \notin DOMAIN store
       THEN /\ last' = Result("analyze", "error", "NotFound", harId,
                              Lookup(harId), NoUpload, NoAnalysis)
            /\ UNCHANGED analyzeReq
       ELSE /\ LET stored == store[harId]
                   s == createLlmSummary(stored.compactEntries, deduplicate)
               IN  analyzeReq' =
                     [active |-> TRUE, harId |-> harId,
                      deduplicate |-> deduplicate, stored |-> stored,
                      summary |-> s.summary,
                      uniquePatterns |-> s.uniquePatterns,
                      originalEntries |-> s.originalEntries]
            /\ last' = Result("lookup", "ok", "none", harId, Lookup(harId),
                              NoUpload, NoAnalysis)
    /\ UNCHANGED <<store, now, lastSweep, nextId, exec, urlVars, curlVars, callVars>>

\* An object used as a map: assigning an existing key replaces its value.
PutHeader(obj, h) ==
    IF \E i \in 1..Len(obj) : obj[i].name = h.name
    THEN [i \in 1..Len(obj) |->
            IF obj[i].name = h.name THEN [obj[i] EXCEPT !.value = h.value]
            ELSE obj[i]]
    ELSE Append(obj, h)

\* The loop of analyze that fills requestHeaders.
RECURSIVE RequestHeaders(_, _)
RequestHeaders(headers, obj) ==
    IF Len(headers) = 0 THEN obj
    ELSE LET name == toLowerCase(headers[1].name) IN
         RequestHeaders(Tail(headers),
            IF /\ ~startsWith(name, <<":">>)
               /\ name # <<"h","o","s","t">>
               /\ name # <<"c","o","n","n","e","c","t","i","o","n">>
               /\ name # <<"c","o","n","t","e","n","t","-","l","e","n","g","t","h">>
            THEN PutHeader(obj, headers[1])
            ELSE obj)

\* `index < 0 || index >= stored.entries.length`, index = twice / 2
IndexRejected(twice, length) == twice < 0 \/ twice >= 2 * length

\* stored.entries[index] is an element only for an integer index.
IsArrayIndex(twice, length) ==
    twice % 2 = 0 /\ twice >= 0 /\ twice < 2 * length

\* Analysis that looks the session up again after the matcher has answered
\* and has nothing to return once the session is gone.
AnalysisLookedUpAgain(req, reply, twice) ==
    IF req.harId \notin DOMAIN store
    THEN [NoAnalysis EXCEPT !.reply = reply]
    ELSE LET matchedEntry == store[req.harId].entries[(twice \div 2) + 1] IN
         [reply |-> reply,
          entries |-> store[req.harId].entries,
          compactEntries |-> store[req.harId].compactEntries,
          curl |-> generateCurl(matchedEntry),
          matchedEntry |-> store[req.harId].compactEntries[(twice \div 2) + 1],
          requestDetails |->
             [url |-> href(matchedEntry.request.url),
              method |-> matchedEntry.request.method,
              headers |-> RequestHeaders(matchedEntry.request.headers, <<>>),
              body |-> IF HasText(matchedEntry.request.postData)
                       THEN matchedEntry.request.postData.text
                       ELSE Undefined],
          entriesAnalyzed |-> req.uniquePatterns,
          totalEntries |-> req.originalEntries]

\* The response analyze assembles from the matched entry.
Analysis(req, reply, twice) ==
    LET matchedEntry == req.stored.entries[(twice \div 2) + 1] IN
    [reply |-> reply,
     entries |-> req.stored.entries,
     compactEntries |-> req.stored.compactEntries,
     curl |-> generateCurl(matchedEntry),
     matchedEntry |-> req.stored.compactEntries[(twice \div 2) + 1],
     requestDetails |->
        [url |-> href(matchedEntry.request.url),
         method |-> matchedEntry.request.method,
         headers |-> RequestHeaders(matchedEntry.request.headers, <<>>),
         body |-> IF HasText(matchedEntry.request.postData)
                  THEN matchedEntry.request.postData.text
                  ELSE Undefined],
     entriesAnalyzed |-> req.uniquePatterns,
     totalEntries |-> req.originalEntries]

\* What a failed analyze leaves: the answer and the session it had read.
Failed(req, reply) ==
    [NoAnalysis EXCEPT !.reply = reply, !.entries = req.stored.entries,
                       !.compactEntries = req.stored.compactEntries]

\* analyze, resumed with the matcher's answer.
AnalyzeFinish(reply) ==
    /\ analyzeReq.active
    /\ analyzeReq' = NoRequest
    /\ LET r == identifyRequest(reply)
           length == Len(analyzeReq.stored.entries)
       IN  last' =
             IF ~r.ok
             THEN Result("analyze", "error", r.error, analyzeReq.harId,
                         NoLookup, NoUpload, Failed(analyzeReq, reply))
             ELSE IF IndexRejected(r.twice, length)
             THEN Result("analyze", "error", "InvalidIndex", analyzeReq.harId,
                         NoLookup, NoUpload, Failed(analyzeReq, reply))
             ELSE IF ~IsArrayIndex(r.twice, length)
             THEN \* generateCurl(undefined): cannot destructure `request`
                  Result("analyze", "error", "TypeError", analyzeReq.harId,
                         NoLookup, NoUpload, Failed(analyzeReq, reply))
             ELSE Result("analyze", "ok", "none", analyzeReq.harId,
                         NoLookup, NoUpload,
                         Analysis(analyzeReq, reply, r.twice))
    /\ UNCHANGED <<store, now, lastSweep, nextId, exec, urlVars, curlVars, callVars>>

\* GetEntries that takes the session out of the store as it returns it.
GetEntriesConsuming(harId) ==
    /\ last' = IF harId \in DOMAIN store
               THEN Result("getEntries", "ok", "none", harId, Lookup(harId),
                           [NoUpload EXCEPT !.entries = store[harId].compactEntries],
                           NoAnalysis)
               ELSE Result("getEntries", "error", "NotFound", harId,
                           Lookup(harId), NoUpload, NoAnalysis)
    /\ store' = [id \in DOMAIN store \ {harId} |-> store[id]]
    /\ UNCHANGED <<now, lastSweep, nextId, analyzeReq, exec, urlVars,
                   curlVars, callVars>>

\* getEntries(harId)
GetEntries(harId) ==
    /\ last' = IF harId \in DOMAIN store
               THEN Result("getEntries", "ok", "none", harId, Lookup(harId),
                           [NoUpload EXCEPT !.entries = store[harId].compactEntries],
                           NoAnalysis)
               ELSE Result("getEntries", "error", "NotFound", harId,
                           Lookup(harId), NoUpload, NoAnalysis)
    /\ UNCHANGED <<store, now, lastSweep, nextId, analyzeReq, exec, urlVars,
                   curlVars, callVars>>

\* Expired with the threshold one sweep interval too late: the fault the
\* staleness bound of C2 guards against.
ExpiredLate(data, time) ==
    time - data.createdAt > TTL_MS + SWEEP_INTERVAL_MS

\* Expired that already holds when the age is exactly the TTL.
ExpiredAtTtl(data, time) == time - data.createdAt >= TTL_MS

\* `now - data.createdAt.getTime() > this.TTL_MS`
Expired(data, time) == time - data.createdAt > TTL_MS

\* cleanup(), run by the interval timer once an interval has passed.
Cleanup ==
    /\ now - lastSweep >= SWEEP_INTERVAL_MS
    /\ lastSweep' = now
    /\ store' = [id \in { i \in DOMAIN store : ~Expired(store[i], now) } |->
                    store[id]]
    /\ UNCHANGED <<now, nextId, analyzeReq, last, exec, urlVars, curlVars, callVars>>

\* The clock advances by one timer interval; the timer fires in every
\* interval, so the clock does not pass a sweep that is due.
Tick ==
    /\ now < MaxTicks * SWEEP_INTERVAL_MS
    /\ now - lastSweep < SWEEP_INTERVAL_MS
    /\ now' = now + SWEEP_INTERVAL_MS
    /\ UNCHANGED <<store, lastSweep, nextId, analyzeReq, last, exec, urlVars,
                   curlVars, callVars>>

HarIds == 0..MaxUploads

NextService ==
    \/ \E f \in UploadInputs : Upload(f)
    \/ \E id \in HarIds, d \in BOOLEAN : AnalyzeStart(id, d)
    \/ \E r \in MatcherReplies : AnalyzeFinish(r)
    \/ \E id \in HarIds : GetEntries(id)
    \/ Cleanup
    \/ Tick

-----------------------------------------------------------------------------
(* HarService.execute.  Each slot is one call of execute: "idle" before    *)
(* the call, "lookup" while validateUrl awaits dns, "fetch" while          *)
(* `await fetch(...)` is pending, "read" while `await response.text()` is  *)
(* pending, "done" once the call has returned or thrown.                   *)

MaxExecs == 1
TIMEOUT_MS == 30000

Slots == 1..MaxExecs

ExecUrls ==
    { Unparsable,
      [parsable |-> TRUE, protocol |-> <<"f","t","p",":">>,
       host |-> [kind |-> "name",
                 text |-> <<"a","p","i",".","e","x","a","m","p","l","e",".","c","o","m">>]],
      [parsable |-> TRUE, protocol |-> HTTP,
       host |-> [kind |-> "name",
                 text |-> <<"l","o","c","a","l","h","o","s","t">>]],
      [parsable |-> TRUE, protocol |-> HTTP,
       host |-> [kind |-> "v4", o |-> <<10, 0, 0, 1>>]],
      [parsable |-> TRUE, protocol |-> HTTPS,
       host |-> [kind |-> "name",
                 text |-> <<"a","p","i",".","e","x","a","m","p","l","e",".","c","o","m">>]] }

ExecuteRequests ==
    [url : ExecUrls,
     method : { GET, <<"g","e","t">>, HEAD, POST },
     body : { Undefined, Some(<<>>), Some(<<"{","}">>) }]

ExecDnsReplies ==
    { NoReply,
      [ok |-> TRUE, address |-> [kind |-> "v4", o |-> <<93, 184, 216, 34>>]],
      [ok |-> TRUE, address |-> [kind |-> "v4", o |-> <<127, 0, 0, 1>>]] }

NoDto == [url |-> Unparsable, method |-> <<>>, body |-> Undefined]
NoFetch == [issued |-> FALSE, url |-> Unparsable, method |-> <<>>,
            body |-> Undefined, timeout |-> 0]
NoOutcome == [kind |-> "none", status |-> 0, headers |-> "none",
              name |-> "none", message |-> "none", text |-> "none"]
NoResponse == [kind |-> "none", status |-> 0, headers |-> "none",
               error |-> "none", message |-> "none", host |-> <<>>,
               suggestion |-> FALSE, body |-> "none"]

IdleExec == [pc |-> "idle", dto |-> NoDto, validated |-> FALSE,
             fetch |-> NoFetch, fetched |-> NoOutcome, read |-> NoOutcome,
             res |-> NoResponse]

\* A rejection of the promise execute returns: validateUrl threw.
Thrown(error) == [NoResponse EXCEPT !.kind = "thrown", !.error = error]

\* fetchOptions and the URL handed to fetch.  `dto.body && ...`: an empty
\* string is falsy.
BodyAttached(dto) ==
    /\ dto.body.def /\ Len(dto.body.v) > 0
    /\ dto.method # GET
    /\ dto.method # HEAD

FetchCall(dto) ==
    [issued |-> TRUE, url |-> dto.url, method |-> dto.method,
     body |-> IF BodyAttached(dto) THEN dto.body ELSE Undefined,
     timeout |-> TIMEOUT_MS]

\* What `await fetch(...)` can settle to.  fetch rejects a GET or HEAD request
\* (the method compared in upper case) that has a body with a TypeError
\* before anything is sent.  The only signal given to fetch is
\* AbortSignal.timeout(TIMEOUT_MS), whose abort is a TimeoutError.
FetchOutcomes(call) ==
    IF call.body.def /\ toUpperCase(call.method) \in {GET, HEAD}
    THEN { [NoOutcome EXCEPT !.kind = "error", !.name = "TypeError",
                             !.message = "Request with GET/HEAD method cannot have body"] }
    ELSE { [NoOutcome EXCEPT !.kind = "response", !.status = st,
                             !.headers = "upstream headers"] : st \in {200, 500} }
         \cup { [NoOutcome EXCEPT !.kind = "error", !.name = "TimeoutError",
                                  !.message = "The operation was aborted due to timeout"],
                [NoOutcome EXCEPT !.kind = "error", !.name = "TypeError",
                                  !.message = "fetch failed"] }

\* What `await response.text()` can settle to.
ReadOutcomes ==
    { [NoOutcome EXCEPT !.kind = "text", !.text = "upstream body"],
      [NoOutcome EXCEPT !.kind = "error", !.name = "TimeoutError",
                        !.message = "The operation was aborted due to timeout"],
      [NoOutcome EXCEPT !.kind = "error", !.name = "TypeError",
                        !.message = "terminated"] }

\* Caught without the timeout branch: the fault the 408 payload of C9 guards
\* against.
CaughtAsBadGateway(dto, error) ==
    [kind |-> "payload", status |-> 502, headers |-> "none",
     error |-> "Request failed", message |-> error.message, host |-> <<>>,
     suggestion |-> TRUE, body |-> "json"]

\* The catch block of execute.
Caught(dto, error) ==
    IF error.name = "TimeoutError" \/ error.name = "AbortError"
    THEN [kind |-> "payload", status |-> 408, headers |-> "none",
          error |-> "Request timed out",
          message |-> "did not respond within 30 seconds",
          host |-> hostname(dto.url), suggestion |-> TRUE, body |-> "json"]
    ELSE [kind |-> "payload", status |-> 502, headers |-> "none",
          error |-> "Request failed",
          message |-> error.message, host |-> <<>>, suggestion |-> TRUE,
          body |-> "json"]

\* The value returned after response.text() resolved.
Passthrough(response, text) ==
    [kind |-> "payload", status |-> response.status,
     headers |-> response.headers, error |-> "none", message |-> "none",
     host |-> <<>>, suggestion |-> FALSE, body |-> text]

\* ValidationPassed with the rejection of validateUrl ignored: the fault C8
\* guards against.
ValidationIgnored(outcome) == TRUE

\* Whether execute goes on to fetch after `await validateUrl(dto.url)`.
ValidationPassed(outcome) == outcome = "ok"

\* execute(dto), up to the await inside validateUrl or to the error it throws.
Execute(s, dto) ==
    /\ exec[s].pc = "idle"
    /\ exec' = [exec EXCEPT ![s] =
          IF SyncChecks(dto.url) = "pass"
          THEN [@ EXCEPT !.pc = "lookup", !.dto = dto]
          ELSE [@ EXCEPT !.pc = "done", !.dto = dto,
                         !.res = Thrown(SyncChecks(dto.url))]]
    /\ UNCHANGED <<serviceVars, urlVars, curlVars, callVars>>

\* validateUrl resumes with the dns answer; when it returns, execute builds
\* fetchOptions and calls fetch.
ExecuteValidated(s, reply) ==
    /\ exec[s].pc = "lookup"
    /\ exec' = [exec EXCEPT ![s] =
          IF ValidationPassed(ResolvedCheck(reply))
          THEN [@ EXCEPT !.pc = "fetch",
                         !.validated = (ResolvedCheck(reply) = "ok"),
                         !.fetch = FetchCall(exec[s].dto)]
          ELSE [@ EXCEPT !.pc = "done",
                         !.res = Thrown(ResolvedCheck(reply))]]
    /\ UNCHANGED <<serviceVars, urlVars, curlVars, callVars>>

\* `await fetch(...)` settles.
ExecuteFetched(s, outcome) ==
    /\ exec[s].pc = "fetch"
    /\ outcome \in FetchOutcomes(exec[s].fetch)
    /\ exec' = [exec EXCEPT ![s] =
          IF outcome.kind = "response"
          THEN [@ EXCEPT !.pc = "read", !.fetched = outcome]
          ELSE [@ EXCEPT !.pc = "done", !.fetched = outcome,
                         !.res = Caught(exec[s].dto, outcome)]]
    /\ UNCHANGED <<serviceVars, urlVars, curlVars, callVars>>

\* `await response.text()` settles.
ExecuteRead(s, outcome) ==
    /\ exec[s].pc = "read"
    /\ exec' = [exec EXCEPT ![s] =
          IF outcome.kind = "text"
          THEN [@ EXCEPT !.pc = "done", !.read = outcome,
                         !.res = Passthrough(exec[s].fetched, outcome.text)]
          ELSE [@ EXCEPT !.pc = "done", !.read = outcome,
                         !.res = Caught(exec[s].dto, outcome)]]
    /\ UNCHANGED <<serviceVars, urlVars, curlVars, callVars>>

NextExec ==
    \/ \E s \in Slots, d \in ExecuteRequests : Execute(s, d)
    \/ \E s \in Slots, r \in ExecDnsReplies : ExecuteValidated(s, r)
    \/ \E s \in Slots,
          o \in UNION { FetchOutcomes(FetchCall(d)) : d \in ExecuteRequests } :
            ExecuteFetched(s, o)
    \/ \E s \in Slots, o \in ReadOutcomes : ExecuteRead(s, o)

-----------------------------------------------------------------------------
(* Calls of the parser utilities filterEntries, stripBodies and            *)
(* createLlmSummary on their own.                                          *)

\* The calls made: filterEntries on captures whose entries fall under every
\* category, several at once included, and createLlmSummary, with and
\* without deduplication, on the compact entries of captures that repeat an
\* endpoint with other values, another parameter order, a parameter given
\* twice, another method, and stripBodies on captures whose entries have no
\* postData, a text, form parameters, or both, with and without a response
\* text.
Calls ==
    LET Get(url, status, mimeType) ==
            Entry(GET, url, <<>>, NoPostData, status, mimeType, 0, Undefined)
        Page(path, query) == Url(API_ORIGIN, path, query)
        P(name, value) == [name |-> name, value |-> value]
        USERS == <<"/","u","s","e","r","s">>
        PAGE == <<"p","a","g","e">>
        LIMIT == <<"l","i","m","i","t">>
        filterable ==
            { E_USERS, E_LOGIN, E_HTML,
              Get(Page(<<"/","a",".","j","s">>, <<>>), 301,
                  <<"t","e","x","t","/","h","t","m","l",";","u">>),
              Get(Page(<<"/","p","i","x","e","l">>, <<>>), 200,
                  <<"i","m","a","g","e","/","p","n","g">>),
              Get(Page(<<"/">>, <<>>), 200, <<"T","e","x","t","/","H","T","M","L">>),
              Get(Page(<<"/","a",".","J","S">>, <<>>), 200, APP_JSON),
              Get(Page(<<"/","b","e","a","c","o","n">>, <<>>), 302, APP_JSON),
              Get(OpaqueUrl(<<"d","a","t","a",":">>, <<"a",",","b">>), 200, <<>>),
              Entry(OPTIONS, Page(USERS, <<>>), <<>>, NoPostData, 304, APP_JSON,
                    0, Undefined),
              Entry(OPTIONS, Page(USERS, <<>>), <<>>, NoPostData, 204, <<>>,
                    0, Undefined) }
        summarised ==
            { Get(Page(USERS, << P(PAGE, <<"7">>), P(LIMIT, <<"4","0">>) >>),
                  200, APP_JSON),
              Get(Page(USERS, << P(PAGE, <<"8">>), P(LIMIT, <<"4","0">>) >>),
                  200, APP_JSON),
              Get(Page(USERS, << P(LIMIT, <<"5">>), P(PAGE, <<"9">>) >>),
                  404, <<>>),
              Get(Page(USERS, << P(PAGE, <<"3">>) >>), 200, APP_JSON),
              Get(Page(USERS, << P(PAGE, <<"7">>), P(PAGE, <<"8">>) >>),
                  200, APP_JSON),
              Get(Page(USERS, <<>>), 200, APP_JSON),
              Get(RawUrl(<<"/","u","s","e","r","s">>), 200, APP_JSON),
              E_LOGIN,
              Entry(POST, Page(USERS, << P(PAGE, <<"7">>) >>), <<>>, NoPostData,
                    201, APP_JSON, 2048, Undefined) }
        Form(text, response) ==
            Entry(POST, Page(<<"/","l","o","g","i","n">>, <<>>), <<>>,
                  [present |-> TRUE,
                   mimeType |-> <<"f","o","r","m">>,
                   text |-> text,
                   params |-> << P(<<"u">>, <<"x">>), P(<<"p">>, <<"y">>) >>],
                  200, APP_JSON, 2, response)
        strippable ==
            { E_USERS, E_LOGIN,
              Form(Undefined, Undefined),
              Form(Some(<<"u","=","x","&","p","=","y">>), Some(<<"o","k">>)) }
    IN  { [fn |-> "filterEntries", entries |-> es, deduplicate |-> FALSE] :
            es \in UNION { [1..k -> filterable] : k \in 0..MaxEntries } }
        \cup
        { [fn |-> "stripBodies", entries |-> es, deduplicate |-> FALSE] :
            es \in UNION { [1..k -> strippable] : k \in 0..MaxEntries } }
        \cup
        { [fn |-> "createLlmSummary", entries |-> toCompactEntries(es),
           deduplicate |-> d] :
            es \in UNION { [1..k -> summarised] : k \in 0..MaxEntries },
            d \in BOOLEAN }

\* filterEntries(entries)
FilterEntriesCall ==
    /\ callIn.fn = "filterEntries"
    /\ ~callOut.done
    /\ callOut' = [NoReturn EXCEPT !.filter = filterEntries(callIn.entries)]
    /\ UNCHANGED <<callIn, serviceVars, exec, urlVars, curlVars>>

\* stripBodies(entries)
StripBodiesCall ==
    /\ callIn.fn = "stripBodies"
    /\ ~callOut.done
    /\ callOut' = [NoReturn EXCEPT !.stripped = stripBodies(callIn.entries)]
    /\ UNCHANGED <<callIn, serviceVars, exec, urlVars, curlVars>>

\* createLlmSummary(entries, deduplicate)
CreateLlmSummaryCall ==
    /\ callIn.fn = "createLlmSummary"
    /\ ~callOut.done
    /\ callOut' =
         [NoReturn EXCEPT
            !.summary = createLlmSummary(callIn.entries, callIn.deduplicate)]
    /\ UNCHANGED <<callIn, serviceVars, exec, urlVars, curlVars>>

NextCall == FilterEntriesCall \/ StripBodiesCall \/ CreateLlmSummaryCall

-----------------------------------------------------------------------------
(* Specifications.                                                         *)

ServiceIdle ==
    /\ store = <<>>
    /\ now = 0
    /\ lastSweep = 0
    /\ nextId = 0
    /\ analyzeReq = NoRequest
    /\ last = NoResultYet

ExecIdle == exec = [s \in Slots |-> IdleExec]

UrlIdle == vpc = "done" /\ vurl = Unparsable /\ vres = NoResult

CurlIdle ==
    /\ curlIn = NoEntry
    /\ curlAlt = NoEntry
    /\ curlOut = [NoCurl EXCEPT !.done = TRUE]
    /\ curlAltOut = [NoCurl EXCEPT !.done = TRUE]

CallIdle == callIn = NoCall /\ callOut = NoReturn

\* The service after construction: an empty store, the timer armed.
Init == ServiceIdle /\ ExecIdle /\ UrlIdle /\ CurlIdle /\ CallIdle
Spec == Init /\ [][NextService]_vars

\* The lifetime of a session: the same service, every capture uploaded being
\* one of two one-entry captures and the matcher always answering index 0.
NextLifetime ==
    \/ \E e \in {E_USERS, E_LOGIN} : Upload(Doc(<<e>>))
    \/ \E id \in HarIds : AnalyzeStart(id, TRUE)
    \/ AnalyzeFinish(MatcherReply("number", 0))
    \/ \E id \in HarIds : GetEntries(id)
    \/ Cleanup
    \/ Tick
SpecLifetime == Init /\ [][NextLifetime]_vars

\* Who writes the store: the same service with its clock, uploads that
\* succeed and fail, analyses that succeed and fail, lookups, and one call
\* of execute that goes through to the upstream response.
NextStore ==
    \/ \E f \in {Doc(<<E_USERS>>), NotJson} : Upload(f)
    \/ \E id \in HarIds : AnalyzeStart(id, TRUE)
    \/ \E k \in {"number", "apiError"} : AnalyzeFinish(MatcherReply(k, 0))
    \/ \E id \in HarIds : GetEntries(id)
    \/ Cleanup
    \/ Tick
    \/ Execute(1, [url |-> [parsable |-> TRUE, protocol |-> HTTPS,
                            host |-> [kind |-> "name",
                                      text |-> <<"a","p","i",".","c","o","m">>]],
                   method |-> POST, body |-> Some(<<"{","}">>)])
    \/ ExecuteValidated(1, [ok |-> TRUE,
                            address |-> [kind |-> "v4", o |-> <<93, 184, 216, 34>>]])
    \/ ExecuteFetched(1, [NoOutcome EXCEPT !.kind = "response", !.status = 200,
                                           !.headers = "upstream headers"])
    \/ ExecuteRead(1, [NoOutcome EXCEPT !.kind = "text",
                                        !.text = "upstream body"])
SpecStore == Init /\ [][NextStore]_vars

\* Large request bodies: the same service, one capture uploaded that holds
\* requests whose body is one character longer than the cap of stripBodies,
\* exactly as long, or two characters.  The last character within the cap is
\* `y`, the one beyond it `z`.
BodyCaptures ==
    LET Body(n) ==
            [i \in 1..n |-> IF i < BODY_CAP THEN "x"
                            ELSE IF i = BODY_CAP THEN "y" ELSE "z"]
        Put(n) ==
            Entry(<<"P","U","T">>, Url(API_ORIGIN, <<"/","d","o","c">>, <<>>),
                  <<>>,
                  [present |-> TRUE, mimeType |-> APP_JSON,
                   text |-> Some(Body(n)), params |-> <<>>],
                  200, APP_JSON, 2, Some(<<"o","k">>))
    IN  UNION { [1..k -> { Put(BODY_CAP + 1), Put(BODY_CAP), Put(2) }] :
                  k \in 1..MaxEntries }

NextBodies ==
    \/ nextId = 0 /\ \E es \in BodyCaptures : Upload(Doc(es))
    \/ \E id \in HarIds, d \in BOOLEAN : AnalyzeStart(id, d)
    \/ \E r \in MatcherReplies : AnalyzeFinish(r)
    \/ \E id \in HarIds : GetEntries(id)
SpecBodies == Init /\ [][NextBodies]_vars

\* What analyze returns about the matched entry: the same service, one capture
\* uploaded whose entries are an HTML page (filtered out), a web-socket
\* request, a javascript: URL, and an API call carrying pseudo-headers,
\* auto-set headers, a cookie and two headers of one name.
DetailCaptures ==
    LET H(name, value) == [name |-> name, value |-> value]
        ACCEPT == <<"A","c","c","e","p","t">>
        feed == Entry(GET, Url(<<"w","s",":","/","/","a","p","i",".","c","o","m">>,
                               <<"/","f","e","e","d">>, <<>>),
                      << H(ACCEPT, <<"a">>) >>, NoPostData, 200, APP_JSON, 8,
                      Undefined)
        script == Entry(GET, OpaqueUrl(<<"j","a","v","a","s","c","r","i","p","t",":">>,
                                       <<"v","o","i","d","(","0",")">>),
                        <<>>, NoPostData, 200, APP_JSON, 0, Undefined)
        api == Entry(POST, Url(API_ORIGIN, <<"/","l","o","g","i","n">>, <<>>),
                     << H(<<":","a","u","t","h","o","r","i","t","y">>,
                          <<"a","p","i",".","c","o","m">>),
                        H(<<"H","o","s","t">>, <<"a","p","i",".","c","o","m">>),
                        H(<<"C","o","n","n","e","c","t","i","o","n">>, <<"u","p">>),
                        H(<<"C","o","n","t","e","n","t","-","L","e","n","g","t","h">>,
                          <<"2">>),
                        H(<<"C","o","o","k","i","e">>, <<"s","i","d">>),
                        H(ACCEPT, <<"a">>),
                        H(ACCEPT, <<"b">>) >>,
                     [present |-> TRUE, mimeType |-> APP_JSON,
                      text |-> Some(<<"{","}">>), params |-> <<>>],
                     200, APP_JSON, 512, Some(<<"o","k">>))
    IN  UNION { [1..k -> { E_HTML, feed, script, api }] : k \in 1..MaxEntries }

NextDetails ==
    \/ nextId = 0 /\ \E es \in DetailCaptures : Upload(Doc(es))
    \/ \E id \in HarIds, d \in BOOLEAN : AnalyzeStart(id, d)
    \/ \E r \in MatcherReplies : AnalyzeFinish(r)
    \/ \E id \in HarIds : GetEntries(id)
SpecDetails == Init /\ [][NextDetails]_vars

\* Calls of execute.
InitExec == ServiceIdle /\ ExecIdle /\ UrlIdle /\ CurlIdle /\ CallIdle
SpecExec == InitExec /\ [][NextExec]_vars

\* generateCurl on every entry of CurlEntries, and on an entry that differs
\* from it only in the values of its sensitive headers.
InitCurl ==
    /\ ServiceIdle /\ ExecIdle /\ UrlIdle /\ CallIdle
    /\ curlIn \in CurlEntries
    /\ curlAlt \in { [curlIn EXCEPT !.request.headers = h] :
                        h \in SecretVariants(curlIn.request.headers) }
    /\ curlOut = NoCurl
    /\ curlAltOut = NoCurl
SpecCurl == InitCurl /\ [][NextCurl]_vars

\* The headers, and the entries, generateCurl is applied to one at a time:
\* methods in both letter cases, every shape of postData (absent, text, empty
\* text, form parameters, both), headers the generator skips, redacts and
\* prints, single quotes in every field.
GenHeaders ==
    { [name |-> <<"H","o","s","t">>, value |-> <<"a">>],
      [name |-> <<"a","c","c","e","p","t","-","e","n","c","o","d","i","n","g">>,
       value |-> <<"a">>],
      [name |-> <<":","p","a","t","h">>, value |-> <<"/">>],
      [name |-> <<":","p","r","o","t","o","c","o","l">>,
       value |-> <<"w","s">>],
      [name |-> <<"A","c","c","e","p","t">>, value |-> <<"i","t","'","s">>],
      [name |-> <<"X","-","I","d">>, value |-> <<"'">>],
      [name |-> <<"C","o","o","k","i","e">>, value |-> <<"i","t","'","s">>] }

GenEntries ==
    { Entry(m, Url(API_ORIGIN, <<"/","o","'","b">>,
                   << [name |-> <<"q">>, value |-> <<"1">>] >>),
            h, pd, 200, <<"j","s","o","n">>, 0, Undefined) :
        m \in { GET, <<"g","e","t">>, POST, <<"p","o","s","t">>,
                <<"P","U","T">> },
        h \in UNION { [1..k -> GenHeaders] : k \in 0..MaxHeaders },
        pd \in { NoPostData } \cup
               [present : {TRUE}, mimeType : { <<"f","o","r","m">> },
                text : { Undefined, Some(<<>>), Some(<<"{","'","k","'","}">>) },
                params : { <<>>,
                           << [name |-> <<"u">>, value |-> <<"x","'">>],
                              [name |-> <<"p">>, value |-> <<"y">>] >> }] }

InitGen ==
    /\ ServiceIdle /\ ExecIdle /\ UrlIdle /\ CallIdle
    /\ curlIn \in GenEntries
    /\ curlAlt = curlIn
    /\ curlOut = NoCurl
    /\ curlAltOut = NoCurl
SpecGen == InitGen /\ [][NextCurl]_vars

\* One call of filterEntries, stripBodies or createLlmSummary.
InitCall ==
    /\ ServiceIdle /\ ExecIdle /\ UrlIdle /\ CurlIdle
    /\ callIn \in Calls
    /\ callOut = [NoReturn EXCEPT !.done = FALSE]
SpecCall == InitCall /\ [][NextCall]_vars

\* validateUrl and assertHttpOrHttpsUrl on every URL of Urls.
InitUrl ==
    /\ ServiceIdle /\ ExecIdle /\ CurlIdle /\ CallIdle
    /\ vpc = "start"
    /\ vurl \in Urls
    /\ vres = NoResult
SpecUrl == InitUrl /\ [][NextUrl]_vars

-----------------------------------------------------------------------------
(* Claims about the session store (specification Spec).                    *)

\* The positions, in capture order, of the entries filterEntries keeps.
RECURSIVE KeptPositions(_, _)
KeptPositions(entries, i) ==
    IF i > Len(entries) THEN <<>>
    ELSE (IF FilterReason(entries[i]) = "kept" THEN <<i>> ELSE <<>>)
         \o KeptPositions(entries, i + 1)

\* C1 (as stated): every CompactEntry of the filtered list that upload
\* returns, and keeps in the stored session, has an index equal to the
\* 0-based position of its entry in the original, unfiltered capture.
C1_IndexIsOriginalPosition ==
    (last.op = "upload" /\ last.status = "ok") =>
        LET kept == KeptPositions(last.upload.input, 1) IN
        /\ Len(last.upload.entries) = Len(kept)
        /\ \A k \in 1..Len(kept) : last.upload.entries[k].index = kept[k] - 1
        /\ last.id \in DOMAIN store =>
              store[last.id].compactEntries = last.upload.entries

\* C1: an upload has returned a filtered list from which an earlier entry of
\* the capture was removed.
C1_EntryRemovedBeforeKept ==
    /\ last.op = "upload" /\ last.status = "ok"
    /\ \E k \in 1..Len(last.upload.entries) :
          KeptPositions(last.upload.input, 1)[k] # k

\* C2 (as stated): a lookup (analyze or getEntries) of a session whose age
\* exceeds the 30-minute TTL yields NotFound, also when the sweep has not run
\* since the session expired; a lookup of an id never issued yields NotFound.
C2_ExpiredLookupNotFound ==
    last.lookup.done =>
        /\ last.lookup.found => last.lookup.age <= TTL_MS
        /\ ~last.lookup.found =>
              last.status = "error" /\ last.error = "NotFound"
        /\ last.id = 0 => ~last.lookup.found

\* C2 (amended): a lookup returns a session exactly while it is in the store,
\* and the sweep bounds its age: a session a lookup returns is never older
\* than the TTL plus one sweep interval.  A lookup that finds no session, in
\* particular one of the id 0 that is never issued, yields NotFound.
C2_LookupStalenessBounded ==
    last.lookup.done =>
        /\ last.lookup.found =>
              /\ last.lookup.age <= TTL_MS + SWEEP_INTERVAL_MS
              /\ last.status = "ok"
        /\ ~last.lookup.found =>
              last.status = "error" /\ last.error = "NotFound"
        /\ last.id = 0 => ~last.lookup.found

\* C2: a lookup has returned a session older than the TTL, before the sweep
\* that removes it.
C2_StaleSessionReturned ==
    /\ last.lookup.done /\ last.lookup.found
    /\ last.lookup.age > TTL_MS

\* C3 (as stated): analyze returns a result only for an integer index in
\* [0, n), built from the stored entry at that index; every other number the
\* matcher returns makes it fail with the invalid-index error or the
\* matcher-contract error.
C3_OnlyValidIndexAccepted ==
    (last.op = "analyze" /\ last.analysis.reply.kind = "number") =>
        LET twice == last.analysis.reply.twice
            entries == last.analysis.entries
        IN  IF twice % 2 = 0 /\ twice >= 0 /\ twice < 2 * Len(entries)
            THEN /\ last.status = "ok"
                 /\ last.analysis.curl =
                        generateCurl(entries[(twice \div 2) + 1])
                 /\ last.analysis.requestDetails.url =
                        href(entries[(twice \div 2) + 1].request.url)
                 /\ last.analysis.requestDetails.method =
                        entries[(twice \div 2) + 1].request.method
            ELSE /\ last.status = "error"
                 /\ last.error \in {"InvalidIndex", "LlmParseError"}

\* C3: analyze has finished on a non-integer number inside the range.
C3_FractionalIndexInRange ==
    /\ last.op = "analyze" /\ last.analysis.reply.kind = "number"
    /\ last.analysis.reply.twice % 2 = 1
    /\ last.analysis.reply.twice > 0
    /\ last.analysis.reply.twice < 2 * Len(last.analysis.entries)

-----------------------------------------------------------------------------
(* Claims about generateCurl (specification SpecCurl).                     *)

-----------------------------------------------------------------------------
(* Claims about the URL validator (specification SpecUrl).                 *)

\* The ranges 127/8, 10/8, 172.16/12, 192.168/16, 169.254/16, 100.64/10, 0/8,
\* ::1, fc00::/7 (fc00..fdff) and fe80::/10 (fe80..febf), on the address.
InBlockedRange(a) ==
    CASE a.kind = "v4" ->
            \/ a.o[1] \in {127, 10, 0}
            \/ a.o[1] = 172 /\ a.o[2] \in 16..31
            \/ a.o[1] = 192 /\ a.o[2] = 168
            \/ a.o[1] = 169 /\ a.o[2] = 254
            \/ a.o[1] = 100 /\ a.o[2] \in 64..127
      [] a.kind = "v6" ->
            \/ a.h1 = 0 /\ a.h8 = 1
            \/ a.h1 \in 64512..65023
            \/ a.h1 \in 65152..65215
      [] OTHER -> FALSE

HttpUrlOffDenylist ==
    /\ vurl.parsable
    /\ vurl.protocol \in {HTTP, HTTPS}
    /\ toLowerCase(hostname(vurl)) \notin BLOCKED_HOSTNAMES

\* C5 (as stated): for an http/https URL whose hostname is not on the
\* denylist, validateUrl rejects with the blocked-IP error of the literal
\* check if and only if the hostname is a literal IP address in a blocked
\* range.
C5_LiteralIpBlockedIffInRange ==
    (vpc = "done" /\ vres.fn = "validateUrl" /\ HttpUrlOffDenylist) =>
        ((vres.outcome = "BlockedIp") <=> InBlockedRange(vurl.host))

\* C5: validateUrl has passed the literal check on an IPv6 literal of a
\* blocked range.
C5_BlockedLiteralPassed ==
    /\ vpc = "done" /\ vres.fn = "validateUrl" /\ HttpUrlOffDenylist
    /\ vurl.host.kind = "v6" /\ InBlockedRange(vurl.host)
    /\ vres.looked

\* C6 (as stated): when the literal checks pass, validateUrl fails if dns
\* resolves the hostname to an address in a blocked range and succeeds if it
\* resolves to a public address or resolution fails.
C6_ResolvedAddressChecked ==
    (vpc = "done" /\ vres.fn = "validateUrl" /\ vres.looked) =>
        IF vres.reply.ok /\ InBlockedRange(vres.reply.address)
        THEN vres.outcome = "ResolvedBlockedIp"
        ELSE vres.outcome = "ok"

\* C6: validateUrl has succeeded although dns answered an address of fc00::/7.
C6_UniqueLocalAnswerAccepted ==
    /\ vpc = "done" /\ vres.fn = "validateUrl" /\ vres.looked
    /\ vres.reply.ok /\ vres.reply.address.kind = "v6"
    /\ vres.reply.address.h1 \in 64512..65023
    /\ vres.outcome = "ok"

\* C7: validateUrl reports the first failing check in the order parse, scheme,
\* denylist, literal IP, resolved IP: InvalidUrl for an unparsable URL,
\* SchemeNotAllowed for any other scheme whatever the host, BlockedHost for a
\* denylisted hostname in any letter case; assertHttpOrHttpsUrl gives the
\* outcome of the first two checks and looks nothing up.
C7_FirstFailingCheck ==
    /\ (vpc = "done" /\ vres.fn = "validateUrl") =>
          /\ ~vurl.parsable => vres.outcome = "InvalidUrl"
          /\ (vurl.parsable /\ vurl.protocol \notin {HTTP, HTTPS}) =>
                vres.outcome = "SchemeNotAllowed"
          /\ ( /\ vurl.parsable /\ vurl.protocol \in {HTTP, HTTPS}
               /\ vurl.host.kind = "name"
               /\ toLowerCase(vurl.host.text) \in BLOCKED_HOSTNAMES ) =>
                vres.outcome = "BlockedHost"
          /\ vres.outcome \in {"BlockedIp", "ResolvedBlockedIp", "ok"} =>
                HttpUrlOffDenylist
          /\ vres.outcome \in {"ResolvedBlockedIp", "ok"} <=> vres.looked
    /\ (vpc = "done" /\ vres.fn = "assertHttpOrHttpsUrl") =>
          /\ ~vres.looked
          /\ vres.outcome =
                IF ~vurl.parsable THEN "InvalidUrl"
                ELSE IF vurl.protocol \notin {HTTP, HTTPS}
                     THEN "SchemeNotAllowed"
                ELSE "ok"

\* C7: validateUrl has rejected a denylisted hostname not written in lower
\* case.
C7_MixedCaseHostBlocked ==
    /\ vpc = "done" /\ vres.fn = "validateUrl"
    /\ vres.outcome = "BlockedHost"
    /\ vurl.host.text # toLowerCase(vurl.host.text)

-----------------------------------------------------------------------------
(* Claims about execute (specification SpecExec).                          *)

ValidationErrors ==
    {"InvalidUrl", "SchemeNotAllowed", "BlockedHost", "BlockedIp",
     "ResolvedBlockedIp"}

\* C8: execute issues a fetch only after validateUrl has succeeded for the URL
\* of the same request, and to that URL; when validation fails, no fetch is
\* issued and the validation error is what the caller gets.
C8_FetchOnlyAfterValidation ==
    \A s \in Slots :
        /\ exec[s].fetch.issued =>
              /\ exec[s].validated
              /\ SyncChecks(exec[s].dto.url) = "pass"
              /\ exec[s].fetch.url = exec[s].dto.url
        /\ (exec[s].pc = "done" /\ ~exec[s].validated) =>
              /\ ~exec[s].fetch.issued
              /\ exec[s].res.kind = "thrown"
              /\ exec[s].res.error \in ValidationErrors

\* C8: a call whose URL passed validation, dns lookup included, has issued
\* its fetch and returned.
C8_FetchedAfterValidation ==
    \E s \in Slots :
        /\ exec[s].fetch.issued /\ exec[s].validated
        /\ exec[s].pc = "done"

\* The error execute has caught in a slot, if any.
ExecError(s) ==
    IF exec[s].fetched.kind = "error" THEN exec[s].fetched ELSE exec[s].read

C10_NoBodyOnGetOrHead ==
    \A s \in Slots :
        exec[s].fetch.issued =>
            IF toUpperCase(exec[s].dto.method) \in {GET, HEAD}
            THEN ~exec[s].fetch.body.def
            ELSE (exec[s].dto.body.def /\ Len(exec[s].dto.body.v) > 0) =>
                     exec[s].fetch.body = exec[s].dto.body

\* C10: a fetch has been issued with a body for the method `get`.
C10_LowerCaseGetWithBody ==
    \E s \in Slots :
        /\ exec[s].fetch.issued
        /\ exec[s].dto.method = <<"g","e","t">>
        /\ exec[s].fetch.body.def

-----------------------------------------------------------------------------
(* Claims about the curl generator, one entry at a time (specification     *)
(* SpecGen).                                                               *)

\* What a POSIX shell makes of a word that is one single-quoted argument,
\* possibly continued by \' and further single-quoted pieces: the string it
\* denotes, and whether the word is all quoted and its quoting is closed.
RECURSIVE ShellUnquote(_, _, _)
ShellUnquote(word, inQuote, value) ==
    IF Len(word) = 0 THEN [ok |-> ~inQuote, value |-> value]
    ELSE IF inQuote
    THEN IF word[1] = "'" THEN ShellUnquote(Tail(word), FALSE, value)
         ELSE ShellUnquote(Tail(word), TRUE, Append(value, word[1]))
    ELSE IF word[1] = "'" THEN ShellUnquote(Tail(word), TRUE, value)
    ELSE IF word[1] = "\\" /\ Len(word) >= 2
    THEN ShellUnquote(Tail(Tail(word)), FALSE, Append(value, word[2]))
    ELSE [ok |-> FALSE, value |-> value]

\* The part is `flag` followed by a quoted word that denotes `text`.
Denotes(part, flag, text) ==
    /\ startsWith(part, flag)
    /\ ShellUnquote(SubSeq(part, Len(flag) + 1, Len(part)), FALSE, <<>>)
         = [ok |-> TRUE, value |-> text]

\* The parts of the command that start with `flag`, in order.
PartsWith(flag) == SelectSeq(curlOut.parts, LAMBDA p : startsWith(p, flag))

\* C11: no -X flag when the upper-cased method is GET, or is POST and the
\* entry has a body (non-empty postData.text or non-empty postData.params);
\* in every other case exactly one `-X METHOD`, right after `curl`.
C11_MethodFlag ==
    curlOut.done =>
        LET request == curlIn.request
            method == toUpperCase(request.method)
            body == /\ request.postData.present
                    /\ \/ /\ request.postData.text.def
                          /\ request.postData.text.v # <<>>
                       \/ request.postData.params # <<>>
            flags == { i \in 1..Len(curlOut.parts) :
                         startsWith(curlOut.parts[i], <<"-","X">>) }
        IN  /\ curlOut.parts[1] = <<"c","u","r","l">>
            /\ IF method = GET \/ (method = POST /\ body)
               THEN flags = {}
               ELSE /\ flags = {2}
                    /\ curlOut.parts[2] = <<"-","X"," ">> \o method
                    /\ startsWith(curlOut.cmd,
                                  <<"c","u","r","l"," ","\\","\n"," "," ",
                                    "-","X"," ">> \o method)

\* C11: generateCurl has run on a lower-case `post` whose postData holds an
\* empty text and no parameter, and has printed -X POST.
C11_PostWithoutBody ==
    /\ curlOut.done
    /\ curlIn.request.method = <<"p","o","s","t">>
    /\ curlIn.request.postData.present
    /\ curlIn.request.postData.text = Some(<<>>)
    /\ curlIn.request.postData.params = <<>>
    /\ curlOut.parts[2] = <<"-","X"," ","P","O","S","T">>

\* A header the generator is to drop: a pseudo-header, or one of the four
\* connection-management headers.
C12_Dropped(header) ==
    LET name == toLowerCase(header.name) IN
    \/ startsWith(name, <<":">>)
    \/ name \in { <<"h","o","s","t">>,
                  <<"c","o","n","n","e","c","t","i","o","n">>,
                  <<"c","o","n","t","e","n","t","-","l","e","n","g","t","h">>,
                  <<"a","c","c","e","p","t","-","e","n","c","o","d","i","n","g">> }

\* C12 (as stated): the -H flags are the request headers in their order
\* without the dropped ones: every header whose name starts with ':' or is
\* host, connection, content-length or accept-encoding in any letter case.
C12_ExactlyTheKeptHeaders ==
    curlOut.done =>
        LET kept == SelectSeq(curlIn.request.headers,
                              LAMBDA h : ~C12_Dropped(h))
        IN  PartsWith(<<"-","H"," ">>) =
                [i \in 1..Len(kept) |-> HeaderPart(kept[i])]

\* C12: generateCurl has printed a header whose name starts with ':' and is
\* none of the four pseudo-headers of its skip list.
C12_UnlistedPseudoHeaderPrinted ==
    /\ curlOut.done
    /\ \E i \in 1..Len(curlIn.request.headers) :
          /\ startsWith(curlIn.request.headers[i].name, <<":">>)
          /\ \E j \in 1..Len(curlOut.parts) :
                curlOut.parts[j] =
                    <<"-","H"," ","'">> \o curlIn.request.headers[i].name
                    \o <<":"," ">> \o curlIn.request.headers[i].value \o <<"'">>

\* The strings of an entry the claim C13 speaks of.
C13_Sources(entry) ==
    { href(entry.request.url) }
    \cup { entry.request.headers[i].value :
             i \in 1..Len(entry.request.headers) }
    \cup (IF entry.request.postData.text.def
          THEN { entry.request.postData.text.v } ELSE {})
    \cup { entry.request.postData.params[i].value :
             i \in 1..Len(entry.request.postData.params) }

C13_Arguments(entry) ==
    LET request == entry.request
        printed == SelectSeq(request.headers,
                      LAMBDA h : toLowerCase(h.name) \notin SKIP_HEADERS)
    IN  << [flag |-> <<>>, text |-> href(request.url)] >>
        \o [i \in 1..Len(printed) |->
              [flag |-> <<"-","H"," ">>,
               text |-> printed[i].name \o <<":"," ">>
                        \o (IF toLowerCase(printed[i].name) \in SENSITIVE_HEADERS
                            THEN REDACTED ELSE printed[i].value)]]
        \o (IF request.postData.text.def /\ request.postData.text.v # <<>>
            THEN << [flag |-> DATA_RAW, text |-> request.postData.text.v] >>
            ELSE [i \in 1..Len(request.postData.params) |->
                    [flag |-> DATA_URLENCODE,
                     text |-> request.postData.params[i].name \o <<"=">>
                              \o request.postData.params[i].value]])

C14_DataFlags ==
    curlOut.done =>
        LET postData == curlIn.request.postData
            raw == PartsWith(DATA_RAW)
            form == PartsWith(DATA_URLENCODE)
        IN  /\ raw = <<>> \/ form = <<>>
            /\ IF postData.text.def /\ postData.text.v # <<>>
               THEN /\ Len(raw) = 1
                    /\ Denotes(raw[1], DATA_RAW, postData.text.v)
               ELSE /\ raw = <<>>
                    /\ Len(form) = Len(postData.params)
                    /\ \A i \in 1..Len(form) :
                          Denotes(form[i], DATA_URLENCODE,
                                  postData.params[i].name \o <<"=">>
                                  \o postData.params[i].value)

\* C14: generateCurl has run on an entry whose postData holds both a text
\* and form parameters, and has printed the raw body.
C14_TextAndParams ==
    /\ curlOut.done
    /\ curlIn.request.postData.text = Some(<<"{","'","k","'","}">>)
    /\ curlIn.request.postData.params # <<>>
    /\ Len(PartsWith(DATA_RAW)) = 1

\* The method curl uses for the command: the -X value when there is one,
\* else POST when a data flag is present, else GET.
MethodCurlUses ==
    IF Len(PartsWith(<<"-","X"," ">>)) > 0
    THEN SubSeq(PartsWith(<<"-","X"," ">>)[1], 4,
                Len(PartsWith(<<"-","X"," ">>)[1]))
    ELSE IF Len(PartsWith(DATA_RAW)) > 0 \/ Len(PartsWith(DATA_URLENCODE)) > 0
    THEN POST
    ELSE GET

\* C30 (as stated): the method curl uses when it runs the command is the
\* captured method of the entry (in upper case), a GET entry that carries a
\* request body included.
C30_CommandUsesCapturedMethod ==
    curlOut.done => MethodCurlUses = toUpperCase(curlIn.request.method)

\* C30: the command generated for a GET entry with a body text has no -X
\* flag and a --data-raw flag, so that curl sends it as a POST.
C30_GetWithBodySentAsPost ==
    /\ curlOut.done
    /\ curlIn.request.method = GET
    /\ HasText(curlIn.request.postData)
    /\ Len(PartsWith(<<"-","X"," ">>)) = 0
    /\ Len(PartsWith(DATA_RAW)) = 1
    /\ MethodCurlUses = POST

-----------------------------------------------------------------------------
(* Claims about filterEntries and createLlmSummary (specification          *)
(* SpecCall).                                                              *)

Filtered == callIn.fn = "filterEntries" /\ callOut.done

\* C15: the stats of filterEntries add up: kept + removed = total, total is
\* the number of entries handed in, kept the length of the filtered list,
\* and the seven counts of the breakdown sum to removed.
C15_StatsAddUp ==
    Filtered =>
        LET stats == callOut.filter.stats
            breakdown == callOut.filter.breakdown
        IN  /\ stats.total = Len(callIn.entries)
            /\ stats.kept + stats.removed = stats.total
            /\ stats.kept = Len(callOut.filter.filtered)
            /\ breakdown.html + breakdown.staticAssetMime
               + breakdown.staticAssetUrl + breakdown.tracking
               + breakdown.dataBlob + breakdown.redirects + breakdown.options
                 = stats.removed

\* C15: filterEntries has kept one entry of a capture and removed another,
\* a preflight request.
C15_KeptAndRemoved ==
    /\ Filtered
    /\ callOut.filter.stats.kept = 1
    /\ callOut.filter.stats.removed = 1
    /\ \E i \in 1..Len(callIn.entries) :
          /\ callIn.entries[i].request.method = OPTIONS
          /\ callIn.entries[i].response.status = 204

\* The seven predicates of the filter on one entry, in their fixed order,
\* and the categories they count under.
C16_Matches(entry) ==
    LET mimeType == entry.response.content.mimeType
        url == entry.request.url
    IN  << includes(mimeType, TEXT_HTML),
           isStaticAssetType(mimeType),
           isStaticAssetUrl(url),
           isTrackingDomain(url),
           \/ startsWith(href(url), <<"d","a","t","a",":">>)
           \/ startsWith(href(url), <<"b","l","o","b",":">>),
           entry.response.status \in 300..399,
           entry.request.method = OPTIONS >>

C16_Categories ==
    << "html", "staticAssetMime", "staticAssetUrl", "tracking", "dataBlob",
       "redirects", "options" >>

\* The position of the first predicate the entry matches, 0 when none.
C16_First(entry) ==
    LET m == C16_Matches(entry) IN
    IF \E k \in 1..7 : m[k]
    THEN CHOOSE k \in 1..7 : m[k] /\ \A j \in 1..(k - 1) : ~m[j]
    ELSE 0

-----------------------------------------------------------------------------
(* Claims about upload (specification Spec).                               *)

\* C17 (as stated): an upload has three outcomes: the malformed-input error
\* for a buffer that is not JSON, the schema-violation error for JSON
\* without a log.entries collection, or the document is accepted and a
\* session is stored; it fails with no other error.
C17_ThreeOutcomes ==
    last.op = "upload" =>
        \/ last.status = "ok" /\ last.id = nextId
        \/ last.status = "error"
           /\ last.error \in {"NotValidJson", "MissingLogEntries"}

\* C17: an upload of JSON whose log.entries is not an array has failed with
\* a TypeError, and no session was stored.
C17_NonArrayEntriesTypeError ==
    /\ last.op = "upload"
    /\ last.error = "TypeError"
    /\ store = <<>>

Summarised == callIn.fn = "createLlmSummary" /\ callOut.done

\* The lines of a summary: summary.split('\n'), none for the empty summary.
RECURSIVE SplitLines(_)
SplitLines(text) ==
    LET breaks == { k \in 1..Len(text) : text[k] = "\n" } IN
    IF breaks = {} THEN <<text>>
    ELSE LET k == CHOOSE b \in breaks : \A c \in breaks : b <= c IN
         <<SubSeq(text, 1, k - 1)>> \o SplitLines(SubSeq(text, k + 1, Len(text)))

Lines ==
    IF callOut.summary.summary = <<>> THEN <<>>
    ELSE SplitLines(callOut.summary.summary)

\* The entry a line stands for: the one whose index the line starts with.
Representative(line) ==
    callIn.entries[
        CHOOSE i \in 1..Len(callIn.entries) :
            startsWith(line, <<"[">> \o Dec(i - 1) \o <<"]", " ">>)]

\* The occurrence count a line carries: N of a suffix ` [xN]`, else 1.
Occurrences(line) ==
    LET counts == { n \in 2..Len(callIn.entries) :
                      endsWith(line, <<" ","[","x">> \o Dec(n) \o <<"]">>) }
    IN  IF counts = {} THEN 1 ELSE CHOOSE n \in counts : TRUE

\* The entries of the input that share the deduplication key of an entry.
Group(entry) ==
    { i \in 1..Len(callIn.entries) :
        getDeduplicationKey(callIn.entries[i]) = getDeduplicationKey(entry) }

RECURSIVE SumOccurrences(_)
SumOccurrences(lines) ==
    IF Len(lines) = 0 THEN 0
    ELSE Occurrences(lines[1]) + SumOccurrences(Tail(lines))

\* The URL a line shows: what stands between the method and the arrow.
UrlShown(line) ==
    LET rep == Representative(line)
        from == Len(Dec(rep.index)) + 3 + Len(rep.method) + 2
        arrow == CHOOSE k \in 1..Len(line) :
                    line[k] = ARROW /\ \A j \in 1..(k - 1) : line[j] # ARROW
    IN  SubSeq(line, from, arrow - 2)

\* C18: with deduplication the lines partition the entries: every entry is
\* counted in exactly one line, the occurrence counts of the lines sum to
\* originalEntries and uniquePatterns <= originalEntries; without it there
\* is one line per entry in the original order and uniquePatterns equals
\* originalEntries.
C18_SummaryPartitions ==
    Summarised =>
        LET entries == callIn.entries
            result == callOut.summary
        IN  /\ result.originalEntries = Len(entries)
            /\ result.uniquePatterns = Len(Lines)
            /\ result.uniquePatterns <= result.originalEntries
            /\ SumOccurrences(Lines) = result.originalEntries
            /\ IF callIn.deduplicate
               THEN /\ \A i \in 1..Len(entries) :
                          Cardinality({ k \in 1..Len(Lines) :
                              i \in Group(Representative(Lines[k])) }) = 1
                    /\ \A k \in 1..Len(Lines) :
                          Occurrences(Lines[k]) =
                              Cardinality(Group(Representative(Lines[k])))
               ELSE /\ result.uniquePatterns = result.originalEntries
                    /\ \A i \in 1..Len(entries) :
                          /\ Representative(Lines[i]) = entries[i]
                          /\ Occurrences(Lines[i]) = 1

\* C18: createLlmSummary has deduplicated two calls of one endpoint that
\* name their parameters in different orders into one pattern.
C18_TwoCallsOnePattern ==
    /\ Summarised /\ callIn.deduplicate
    /\ callOut.summary.originalEntries = 2
    /\ callOut.summary.uniquePatterns = 1
    /\ Len(callIn.entries[1].url.query) = 2
    /\ callIn.entries[1].url.query[1].name # callIn.entries[2].url.query[1].name

Pattern(entry) ==
    <<entry.method,
      IF entry.url.parsable THEN entry.url.origin \o entry.url.pathname
      ELSE href(entry.url),
      { entry.url.query[q].name : q \in 1..Len(entry.url.query) }>>

\* C22 (as stated): with deduplication there is one line per pattern (method,
\* origin+path, set of parameter names) of the input, and each line counts
\* the entries that have the pattern of its representative; values, order
\* and repetition of parameters play no part.
C22_GroupedByNameSet ==
    (Summarised /\ callIn.deduplicate) =>
        /\ callOut.summary.uniquePatterns =
              Cardinality({ Pattern(callIn.entries[i]) :
                              i \in 1..Len(callIn.entries) })
        /\ \A k \in 1..Len(Lines) :
              Occurrences(Lines[k]) =
                Cardinality({ i \in 1..Len(callIn.entries) :
                    Pattern(callIn.entries[i]) = Pattern(Representative(Lines[k])) })

\* C22: two calls with the same method, origin, path and set of parameter
\* names, one of them naming a parameter twice, have been summarised as two
\* patterns.
C22_RepeatedNameSplitsGroup ==
    /\ Summarised /\ callIn.deduplicate
    /\ Len(callIn.entries) = 2
    /\ Pattern(callIn.entries[1]) = Pattern(callIn.entries[2])
    /\ Len(callIn.entries[1].url.query) # Len(callIn.entries[2].url.query)
    /\ callOut.summary.uniquePatterns = 2

\* C23: with deduplication every line starts with the index and the method
\* of the member of its group that has the least index, shows that member's
\* status, response type and size after the arrow, and the lines stand in
\* ascending order of the index they start with.
C23_FirstMemberRepresents ==
    (Summarised /\ callIn.deduplicate) =>
        /\ \A k \in 1..Len(Lines) :
              LET rep == Representative(Lines[k]) IN
              /\ \A i \in Group(rep) : rep.index <= callIn.entries[i].index
              /\ startsWith(Lines[k],
                            <<"[">> \o Dec(rep.index) \o <<"]", " ">>
                            \o rep.method \o <<" ">>)
              /\ includes(Lines[k],
                          <<" ", ARROW, " ">> \o Dec(rep.status) \o <<" ", "(">>
                          \o rep.responseType \o <<",", " ">>
                          \o formatBytes(rep.responseSize) \o <<")">>)
        /\ \A k \in 1..Len(Lines), l \in 1..Len(Lines) :
              k < l => Representative(Lines[k]).index
                         < Representative(Lines[l]).index

\* C23: two calls of one endpoint with different statuses have been
\* summarised in one line, which shows index 0 and the status of the first.
C23_LaterMemberFolded ==
    /\ Summarised /\ callIn.deduplicate
    /\ Len(callIn.entries) = 2
    /\ callIn.entries[1].status # callIn.entries[2].status
    /\ Len(Lines) = 1
    /\ startsWith(Lines[1], <<"[", "0", "]">>)
    /\ includes(Lines[1], <<ARROW, " ">> \o Dec(callIn.entries[1].status))

\* What stripBodies is stated to make of an entry: the response text
\* removed, the request text cut to its first 10,000 characters, `text` the
\* text a postData without one ends up with.
StrippedAs(entry, text) ==
    LET postData == entry.request.postData IN
    [request |->
        [entry.request EXCEPT
            !.postData =
                IF ~postData.present THEN postData
                ELSE [postData EXCEPT
                        !.text = IF postData.text.def
                                 THEN Some(SubSeq(postData.text.v, 1,
                                            IF Len(postData.text.v) < 10000
                                            THEN Len(postData.text.v)
                                            ELSE 10000))
                                 ELSE text]],
     response |-> [entry.response EXCEPT !.content.text = Undefined]]

StrippedCall == callIn.fn = "stripBodies" /\ callOut.done

\* C24 (as stated): the list stripBodies returns has the length and order of
\* its input and each entry differs from its input entry in nothing but the
\* removed response text and the truncated request text; an entry without
\* postData stays without, and a postData without text gains none.
C24_OnlyBodiesChange ==
    StrippedCall =>
        /\ Len(callOut.stripped) = Len(callIn.entries)
        /\ \A i \in 1..Len(callIn.entries) :
              callOut.stripped[i] = StrippedAs(callIn.entries[i], Undefined)

\* C24 (amended): the same, except that a postData without text comes back
\* with the empty text.
C24_AbsentTextBecomesEmpty ==
    StrippedCall =>
        /\ Len(callOut.stripped) = Len(callIn.entries)
        /\ \A i \in 1..Len(callIn.entries) :
              callOut.stripped[i] = StrippedAs(callIn.entries[i], Some(<<>>))

\* C24: stripBodies has returned an entry that had form parameters and no
\* text with its parameters and the empty text, next to one without postData.
C24_FormWithoutTextStripped ==
    /\ StrippedCall
    /\ Len(callIn.entries) = 2
    /\ ~callIn.entries[1].request.postData.present
    /\ callIn.entries[1].response.content.text.def
    /\ ~callOut.stripped[1].request.postData.present
    /\ ~callIn.entries[2].request.postData.text.def
    /\ Len(callOut.stripped[2].request.postData.params) = 2
    /\ callOut.stripped[2].request.postData.text = Some(<<>>)

-----------------------------------------------------------------------------
(* Claims about the bodies of stored entries (specification SpecBodies).   *)

\* The raw body a command carries after --data-raw, in characters: an
\* escaped quote '\'' counts as the one quote it stands for.
RawBodyLength(cmd) ==
    LET starts == { k \in 1..(Len(cmd) - Len(DATA_RAW) + 1) :
                      /\ cmd[k] = "-"
                      /\ SubSeq(cmd, k, k + Len(DATA_RAW) - 1) = DATA_RAW }
    IN  IF starts = {} THEN 0
        ELSE LET from == (CHOOSE k \in starts : TRUE) + Len(DATA_RAW) + 1
                 quoted == SubSeq(cmd, from, Len(cmd) - 1)
             IN  Len(quoted)
                 - 3 * Cardinality({ k \in 1..Len(quoted) : quoted[k] = "\\" })

\* C20: every stored entry has no response body text and a request body
\* text of at most 10,000 characters; right after an upload, the body of
\* each stored entry is the first 10,000 characters of the body uploaded
\* (all of it when it had at most 10,000); no curl command analyze returns
\* carries a raw body longer than 10,000 characters.
C20_StoredBodiesCapped ==
    /\ \A id \in DOMAIN store :
          \A i \in 1..Len(store[id].entries) :
              /\ ~store[id].entries[i].response.content.text.def
              /\ Len(store[id].entries[i].request.postData.text.v) <= 10000
    /\ (last.op = "upload" /\ last.status = "ok") =>
          LET uploaded == SelectSeq(last.upload.input,
                                    LAMBDA e : C16_First(e) = 0)
              stored == store[last.id].entries
          IN  /\ Len(stored) = Len(uploaded)
              /\ \A i \in 1..Len(uploaded) :
                    LET was == uploaded[i].request.postData.text
                        is == stored[i].request.postData.text
                    IN  was.def =>
                          /\ is.def
                          /\ Len(is.v) = (IF Len(was.v) <= 10000
                                          THEN Len(was.v) ELSE 10000)
                          /\ is.v = SubSeq(was.v, 1, Len(is.v))
    /\ (last.op = "analyze" /\ last.status = "ok") =>
          RawBodyLength(last.analysis.curl) <= 10000

\* C20: a capture with a request body of more than 10,000 characters has
\* been uploaded and its entry is stored with a body of exactly 10,000.
C20_LongBodyTruncated ==
    /\ last.op = "upload" /\ last.status = "ok"
    /\ Len(last.upload.input[1].request.postData.text.v) > 10000
    /\ Len(store[last.id].entries[1].request.postData.text.v) = 10000

-----------------------------------------------------------------------------
(* Claims about what analyze returns for the matched entry (SpecDetails).  *)

\* The entry of the session an analysis read that the matcher's index picks.
Matched ==
    last.analysis.entries[(last.analysis.reply.twice \div 2) + 1]

\* The URL written with the scheme http: or https:.
HttpOrHttps(u) ==
    \/ startsWith(href(u), <<"h","t","t","p",":">>)
    \/ startsWith(href(u), <<"h","t","t","p","s",":">>)

\* C21 (as stated): analyze returns a curl command only for a matched entry
\* whose URL has the scheme http or https; for any other scheme it fails.
C21_OtherSchemesRejected ==
    (last.op = "analyze" /\ last.status = "ok") => HttpOrHttps(Matched.request.url)

\* C21: analyze has returned a curl command for a matched entry whose URL is
\* a ws: or a javascript: URL.
C21_OtherSchemeAnalysed ==
    /\ last.op = "analyze" /\ last.status = "ok"
    /\ ~HttpOrHttps(Matched.request.url)
    /\ Len(last.analysis.curl) > 0

\* A header analyze is stated to leave out of requestDetails: a
\* pseudo-header, host, connection or content-length, in any letter case.
AutoSet(h) ==
    \/ startsWith(h.name, <<":">>)
    \/ toLowerCase(h.name) \in
          { <<"h","o","s","t">>, <<"c","o","n","n","e","c","t","i","o","n">>,
            <<"c","o","n","t","e","n","t","-","l","e","n","g","t","h">> }

\* C28 (as stated): the headers of requestDetails are, each with the value
\* the entry has for it, the headers of the matched entry that are neither
\* pseudo-headers nor host, connection or content-length, and none of them
\* is lost, several headers of one name included.
C28_EveryOtherHeaderReturned ==
    (last.op = "analyze" /\ last.status = "ok") =>
        LET sent == Matched.request.headers
            returned == last.analysis.requestDetails.headers
        IN  /\ \A i \in 1..Len(sent) :
                  ~AutoSet(sent[i]) =>
                      \E j \in 1..Len(returned) : returned[j] = sent[i]
            /\ \A j \in 1..Len(returned) :
                  \E i \in 1..Len(sent) :
                      ~AutoSet(sent[i]) /\ returned[j] = sent[i]
            /\ Len(returned) = Len(SelectSeq(sent, LAMBDA h : ~AutoSet(h)))

\* C28: analyze has returned the details of an entry that has two Accept
\* headers, and the value of the first is in none of the headers returned.
C28_FirstOfTwoHeadersLost ==
    /\ last.op = "analyze" /\ last.status = "ok"
    /\ \E i, k \in 1..Len(Matched.request.headers) :
          /\ i < k
          /\ Matched.request.headers[i].name = Matched.request.headers[k].name
          /\ Matched.request.headers[i].value # Matched.request.headers[k].value
          /\ \A j \in 1..Len(last.analysis.requestDetails.headers) :
                last.analysis.requestDetails.headers[j] # Matched.request.headers[i]

\* The lines of the summary a waiting analyze has handed to the matcher.
MatcherLines ==
    IF analyzeReq.summary = <<>> THEN <<>> ELSE SplitLines(analyzeReq.summary)

\* C29: in every stored session entries and compactEntries have the same
\* length and compactEntries[i] has index i and the method and URL of
\* entries[i]; every line of the summary handed to the matcher starts with
\* an index that is a position of the session's entries, followed by the
\* method and the URL (compacted under deduplication) of the entry at that
\* position; and the matchedEntry analyze returns has the index the matcher
\* chose and the method and URL of the entry the curl command is for.
C29_IndexDesignatesEntry ==
    /\ \A id \in DOMAIN store :
          LET entries == store[id].entries
              compact == store[id].compactEntries
          IN  /\ Len(compact) = Len(entries)
              /\ \A i \in 1..Len(entries) :
                    /\ compact[i].index = i - 1
                    /\ compact[i].method = entries[i].request.method
                    /\ compact[i].url = entries[i].request.url
    /\ analyzeReq.active =>
          \A k \in 1..Len(MatcherLines) :
              \E i \in 1..Len(analyzeReq.stored.entries) :
                  LET request == analyzeReq.stored.entries[i].request IN
                  startsWith(MatcherLines[k],
                      <<"[">> \o Dec(i - 1) \o <<"]", " ">> \o request.method
                      \o <<" ">>
                      \o (IF analyzeReq.deduplicate THEN CompactUrl(request.url)
                          ELSE href(request.url))
                      \o <<" ", ARROW>>)
    /\ (last.op = "analyze" /\ last.status = "ok") =>
          /\ 2 * last.analysis.matchedEntry.index = last.analysis.reply.twice
          /\ last.analysis.matchedEntry.method = Matched.request.method
          /\ last.analysis.matchedEntry.url = Matched.request.url
          /\ last.analysis.curl = generateCurl(Matched)
          /\ includes(last.analysis.curl,
                      <<"'">> \o escapeShell(href(last.analysis.matchedEntry.url))
                      \o <<"'">>)

\* C29: in a session of two entries with different methods and URLs the
\* matcher has chosen index 1, and analyze has returned the second entry.
C29_SecondEntryMatched ==
    /\ last.op = "analyze" /\ last.status = "ok"
    /\ Len(last.analysis.entries) = 2
    /\ last.analysis.entries[1].request.method
         # last.analysis.entries[2].request.method
    /\ last.analysis.entries[1].request.url # last.analysis.entries[2].request.url
    /\ last.analysis.matchedEntry.index = 1
    /\ last.analysis.matchedEntry.url = last.analysis.entries[2].request.url

-----------------------------------------------------------------------------
(* Claims about the sweep and the store (specification SpecLifetime).      *)

\* The sessions of the store that are older than the TTL.
Overdue == { id \in DOMAIN store : now - store[id].createdAt > TTL_MS }

\* C25: a run of the sweep removes exactly the sessions older than the TTL
\* and leaves the others as they were; no step removes a session whose age
\* is at most the TTL; and, the timer firing every interval, no session is
\* in the store more than TTL plus one interval after its creation.
C25_SweepRemovesTheOverdue ==
    /\ [][/\ lastSweep' # lastSweep =>
               /\ DOMAIN store' = DOMAIN store \ Overdue
               /\ \A id \in DOMAIN store' : store'[id] = store[id]
          /\ \A id \in DOMAIN store :
               id \notin DOMAIN store' => id \in Overdue]_vars
    /\ [](\A id \in DOMAIN store :
             now - store[id].createdAt <= TTL_MS + SWEEP_INTERVAL_MS)

\* C25: the sweep has just run for the seventh time and has left the store
\* empty: the session uploaded at the start, kept by the sweep at the age of
\* exactly the TTL, is gone one interval later.
C25_SessionSweptAfterTtl ==
    /\ nextId = 1
    /\ store = <<>>
    /\ lastSweep = now
    /\ now = TTL_MS + SWEEP_INTERVAL_MS

\* C26: an analyze that finds its session reads it as it is in the store at
\* that moment and one that does not gets NotFound; nothing, the sweep
\* included, touches what a waiting analyze has read; and when the matcher
\* answers, the analyze completes with the entries, the curl command and the
\* matched entry of the session it read, whether or not the sweep has
\* deleted that session in between.
C26_AnalyzeKeepsWhatItRead ==
    [][/\ (last' # last /\ last'.op = "lookup") =>
             /\ last'.id \in DOMAIN store
             /\ analyzeReq'.active /\ analyzeReq'.harId = last'.id
             /\ analyzeReq'.stored = store[last'.id]
       /\ (last' # last /\ last'.op = "analyze" /\ last'.lookup.done) =>
             /\ last'.id \notin DOMAIN store
             /\ last'.error = "NotFound"
             /\ analyzeReq' = analyzeReq
       /\ (analyzeReq.active /\ analyzeReq'.active) => analyzeReq' = analyzeReq
       /\ (analyzeReq.active /\ ~analyzeReq'.active) =>
             LET stored == analyzeReq.stored IN
             /\ last'.op = "analyze" /\ last'.status = "ok"
             /\ last'.id = analyzeReq.harId
             /\ last'.analysis.entries = stored.entries
             /\ last'.analysis.curl = generateCurl(stored.entries[1])
             /\ last'.analysis.matchedEntry = stored.compactEntries[1]
             /\ last'.analysis.requestDetails.url
                  = href(stored.entries[1].request.url)]_vars

\* C26: an analyze has completed with a curl command although the sweep
\* deleted its session while it waited for the matcher.
C26_CompletedAfterDeletion ==
    /\ last.op = "analyze" /\ last.status = "ok"
    /\ last.id \notin DOMAIN store
    /\ Len(last.analysis.curl) > 0
    /\ Len(last.analysis.entries) = 1

=============================================================================
